---- MODULE Spec2Model ----
(***************************************************************************)
(* A model of the HyperLogLog sketch core of postgresql-hll (src/hll.c):   *)
(* the multiset_t value with its representations, multiset_add,            *)
(* multiset_union, the version-1 wire format (multiset_pack /              *)
(* multiset_unpack over a big-endian bitstream), the estimator             *)
(* multiset_card, and the aggregate transition and final functions.        *)
(*                                                                         *)
(* A 64-bit token is a tuple of four 16-bit limbs, most significant first, *)
(* so that every shift, mask and comparison of the C code keeps its width. *)
(* A packed sketch is a sequence of bytes (0..255).                        *)
(***************************************************************************)
EXTENDS Integers, Sequences, FiniteSets, TLC

\* ------------------------------------------------------------------------
\* Bounds of the model
\* ------------------------------------------------------------------------

\* log2m inputs are MaxLog2m-1 .. MaxLog2m (m = 8 and m = 16).
MaxLog2m == 4

\* regwidth inputs are 0 .. MaxRegwidth.
MaxRegwidth == 2

\* expthresh inputs are -1, 0 and 2^k for k in 0 .. MaxExpLog2.
MaxExpLog2 == 1

\* low limbs of the non-negative input tokens are 8*k for k in 0 .. MaxTokK.
MaxTokK == 2

\* ------------------------------------------------------------------------
\* Program constants
\* ------------------------------------------------------------------------

MST_UNDEFINED == 0
MST_EMPTY == 1
MST_EXPLICIT == 2
MST_SPARSE == 3
MST_COMPRESSED == 4
MST_UNINIT == 65535

DEFAULT_LOG2M == 11
DEFAULT_REGWIDTH == 5
DEFAULT_EXPTHRESH == -1
DEFAULT_SPARSEON == 1

LOG2M_BITS == 5
REGWIDTH_BITS == 3
SPARSEON_BITS == 1

MS_MAXDATA == 131072

MAX_BITVAL(nbits) == (2 ^ nbits) - 1

\* ------------------------------------------------------------------------
\* Machine arithmetic
\* ------------------------------------------------------------------------

Max(a, b) == IF a >= b THEN a ELSE b

\* bit k (0 = least significant) of the non-negative integer v
IntBit(v, k) == (v \div (2 ^ k)) % 2

\* v | w for non-negative integers below 2^nb
RECURSIVE BitOr(_, _, _)
BitOr(v, w, nb) ==
    IF nb = 0 THEN 0
    ELSE Max(v % 2, w % 2) + 2 * BitOr(v \div 2, w \div 2, nb - 1)

\* bit i (0 = least significant, 63 = sign) of a 64-bit token
TokBit(t, i) == IntBit(t[4 - (i \div 16)], i % 16)

\* elem & (2^n - 1), n <= 30
RECURSIVE TokLowBits(_, _)
TokLowBits(t, n) ==
    IF n = 0 THEN 0 ELSE TokLowBits(t, n - 1) + TokBit(t, n - 1) * (2 ^ (n - 1))

\* position of the lowest set bit of t at or above bit i, 64 when there is none
RECURSIVE TokFirstSet(_, _)
TokFirstSet(t, i) ==
    IF i > 63 THEN 64
    ELSE IF TokBit(t, i) = 1 THEN i
    ELSE TokFirstSet(t, i + 1)

\* the limb of a token read as part of a signed 64-bit integer
SignedLimb(t, k) == IF k = 1 /\ t[1] >= 32768 THEN t[1] - 65536 ELSE t[k]

RECURSIVE LimbCompare(_, _, _)
LimbCompare(a, b, k) ==
    IF k > 4 THEN 0
    ELSE IF SignedLimb(a, k) < SignedLimb(b, k) THEN -1
    ELSE IF SignedLimb(a, k) > SignedLimb(b, k) THEN 1
    ELSE LimbCompare(a, b, k + 1)

\* the bug this compares against: unsigned comparison of the tokens
RECURSIVE UnsignedLimbCompare(_, _, _)
UnsignedLimbCompare(a, b, k) ==
    IF k > 4 THEN 0
    ELSE IF a[k] < b[k] THEN -1
    ELSE IF a[k] > b[k] THEN 1
    ELSE UnsignedLimbCompare(a, b, k + 1)

element_compare_unsigned(v1, v2) == UnsignedLimbCompare(v1, v2, 1)

\* signed 64-bit comparison: -1, 0 or 1
element_compare(v1, v2) == LimbCompare(v1, v2, 1)

\* bsearch(3) over arr[1..nmemb] with element_compare
RECURSIVE BSearchRange(_, _, _, _)
BSearchRange(key, arr, l, u) ==
    IF l >= u THEN FALSE
    ELSE LET idx == (l + u) \div 2
             c == element_compare(key, arr[idx + 1])
         IN IF c < 0 THEN BSearchRange(key, arr, l, idx)
            ELSE IF c > 0 THEN BSearchRange(key, arr, idx + 1, u)
            ELSE TRUE

bsearch(key, arr, nmemb) == BSearchRange(key, arr, 0, nmemb)

\* qsort(3) with element_compare: the ascending arrangement of arr
RECURSIVE SortInsert(_, _)
SortInsert(sorted, e) ==
    IF sorted = << >> THEN << e >>
    ELSE IF element_compare(e, Head(sorted)) <= 0 THEN << e >> \o sorted
    ELSE << Head(sorted) >> \o SortInsert(Tail(sorted), e)

RECURSIVE qsort(_)
qsort(arr) ==
    IF arr = << >> THEN << >>
    ELSE SortInsert(qsort(SubSeq(arr, 1, Len(arr) - 1)), arr[Len(arr)])

\* ------------------------------------------------------------------------
\* Parameters
\* ------------------------------------------------------------------------

\* the loop of integer_log2: the number of shifts until the value is zero
RECURSIVE ShiftCount(_)
ShiftCount(value) == IF value = 0 THEN 0 ELSE 1 + ShiftCount(value \div 2)

integer_log2(val) == ShiftCount(val) - 1

decode_expthresh(encoded_expthresh) ==
    IF encoded_expthresh = 63 THEN -1
    ELSE IF encoded_expthresh = 0 THEN 0
    ELSE 2 ^ (encoded_expthresh - 1)

encode_expthresh(expthresh) ==
    IF expthresh = -1 THEN 63
    ELSE IF expthresh = 0 THEN 0
    ELSE integer_log2(expthresh) + 1

expthresh_value(expthresh, nbits, nregs) ==
    IF expthresh # -1 THEN expthresh
    ELSE LET cmpsz == ((nbits * nregs) + 7) \div 8
         IN cmpsz \div 8

\* check_modifiers: TRUE when the four modifiers are accepted
check_modifiers(log2m, regwidth, expthresh, sparseon) ==
    /\ ~(log2m < 0 \/ log2m > MAX_BITVAL(LOG2M_BITS))
    /\ ~(regwidth < 0 \/ regwidth > MAX_BITVAL(REGWIDTH_BITS))
    /\ ~(expthresh < -1 \/ expthresh \div 4 > 1073741824
                         \/ (expthresh \div 4 = 1073741824 /\ expthresh % 4 > 0))
    /\ ~(expthresh > 0 /\ (2 ^ integer_log2(expthresh)) # expthresh)
    /\ ~(sparseon < 0 \/ sparseon > MAX_BITVAL(SPARSEON_BITS))

\* ------------------------------------------------------------------------
\* The sketch value (multiset_t)
\* ------------------------------------------------------------------------

\* memset(&ms, 0) followed by the assignments of hll_empty4 / hll_add_trans4
EmptyMultiset(log2m, regwidth, expthresh, sparseon) ==
    [ ms_nbits     |-> regwidth,
      ms_nregs     |-> 2 ^ log2m,
      ms_log2nregs |-> log2m,
      ms_expthresh |-> expthresh,
      ms_sparseon  |-> sparseon,
      ms_type      |-> MST_EMPTY,
      mse_elems    |-> << >>,
      msc_regs     |-> << >> ]

\* the state setup_multiset leaves: no parameters yet
UninitMultiset ==
    [ ms_nbits     |-> 0,
      ms_nregs     |-> 0,
      ms_log2nregs |-> 0,
      ms_expthresh |-> 0,
      ms_sparseon  |-> 0,
      ms_type      |-> MST_UNINIT,
      mse_elems    |-> << >>,
      msc_regs     |-> << >> ]

\* the four parameters of a sketch
Metadata(ms) ==
    << ms.ms_log2nregs, ms.ms_nbits, ms.ms_expthresh, ms.ms_sparseon, ms.ms_nregs >>

copy_metadata(o_msp, i_msp) ==
    [ o_msp EXCEPT !.ms_nbits = i_msp.ms_nbits,
                   !.ms_nregs = i_msp.ms_nregs,
                   !.ms_log2nregs = i_msp.ms_log2nregs,
                   !.ms_expthresh = i_msp.ms_expthresh,
                   !.ms_sparseon = i_msp.ms_sparseon ]

\* the bug this compares against: sparseon is not compared
check_metadata_no_sparseon(i_omp, i_imp) ==
    /\ i_omp.ms_nbits = i_imp.ms_nbits
    /\ i_omp.ms_nregs = i_imp.ms_nregs
    /\ i_omp.ms_expthresh = i_imp.ms_expthresh

\* check_metadata: TRUE when no error is raised
check_metadata(i_omp, i_imp) ==
    /\ i_omp.ms_nbits = i_imp.ms_nbits
    /\ i_omp.ms_nregs = i_imp.ms_nregs
    /\ i_omp.ms_expthresh = i_imp.ms_expthresh
    /\ i_omp.ms_sparseon = i_imp.ms_sparseon

\* the bug this compares against: the register is overwritten, not maximised
compressed_add_overwrite(o_msp, elem) ==
    LET maxregval == (2 ^ o_msp.ms_nbits) - 1
        ndx == TokLowBits(elem, o_msp.ms_log2nregs)
        first == TokFirstSet(elem, o_msp.ms_log2nregs)
        p_w == IF first = 64 THEN 0 ELSE first - o_msp.ms_log2nregs + 1
    IN [ o_msp EXCEPT !.msc_regs[ndx + 1] = p_w ]

\* the bug this compares against: the rank is not clamped to the register width
compressed_add_unclamped(o_msp, elem) ==
    LET ndx == TokLowBits(elem, o_msp.ms_log2nregs)
        first == TokFirstSet(elem, o_msp.ms_log2nregs)
        p_w == IF first = 64 THEN 0 ELSE first - o_msp.ms_log2nregs + 1
    IN IF o_msp.msc_regs[ndx + 1] < p_w
       THEN [ o_msp EXCEPT !.msc_regs[ndx + 1] = p_w ]
       ELSE o_msp

\* the bug this compares against: the rank is the count of trailing zeros
\* without the one added to it
compressed_add_rank_less_one(o_msp, elem) ==
    LET maxregval == (2 ^ o_msp.ms_nbits) - 1
        ndx == TokLowBits(elem, o_msp.ms_log2nregs)
        first == TokFirstSet(elem, o_msp.ms_log2nregs)
        p_w0 == IF first = 64 THEN 0 ELSE first - o_msp.ms_log2nregs
        p_w == IF p_w0 > maxregval THEN maxregval ELSE p_w0
    IN IF o_msp.msc_regs[ndx + 1] < p_w
       THEN [ o_msp EXCEPT !.msc_regs[ndx + 1] = p_w ]
       ELSE o_msp

compressed_add(o_msp, elem) ==
    LET nbits == o_msp.ms_nbits
        log2nregs == o_msp.ms_log2nregs
        maxregval == (2 ^ nbits) - 1
        \* elem & (nregs - 1)
        ndx == TokLowBits(elem, log2nregs)
        \* ss_val = elem >> log2nregs; ss_val == 0 ? 0 : ctz(ss_val) + 1
        first == TokFirstSet(elem, log2nregs)
        p_w0 == IF first = 64 THEN 0 ELSE first - log2nregs + 1
        p_w == IF p_w0 > maxregval THEN maxregval ELSE p_w0
    IN IF o_msp.msc_regs[ndx + 1] < p_w
       THEN [ o_msp EXCEPT !.msc_regs[ndx + 1] = p_w ]
       ELSE o_msp

\* compressed_add of elems[ii..], in order
RECURSIVE CompressedAddFrom(_, _, _)
CompressedAddFrom(o_msp, elems, ii) ==
    IF ii > Len(elems) THEN o_msp
    ELSE CompressedAddFrom(compressed_add(o_msp, elems[ii]), elems, ii + 1)

compressed_explicit_union(o_msp, i_msp) ==
    CompressedAddFrom(o_msp, i_msp.mse_elems, 1)

\* the bug this compares against: the registers are cleared and the Explicit
\* tokens are not added to them
explicit_to_compressed_clears(msp) ==
    [ msp EXCEPT !.ms_type = MST_COMPRESSED,
                 !.mse_elems = << >>,
                 !.msc_regs = [ i \in 1 .. msp.ms_nregs |-> 0 ] ]

explicit_to_compressed(msp) ==
    LET cleared == [ msp EXCEPT !.ms_type = MST_COMPRESSED,
                                !.mse_elems = << >>,
                                !.msc_regs = [ i \in 1 .. msp.ms_nregs |-> 0 ] ]
    IN compressed_explicit_union(cleared, msp)

\* the bug this compares against: an Explicit list is not searched for the
\* element before it is inserted
multiset_add_no_lookup(o_msp, element) ==
    LET expval == expthresh_value(o_msp.ms_expthresh, o_msp.ms_nbits, o_msp.ms_nregs)
    IN CASE o_msp.ms_type = MST_EMPTY ->
              IF expval = 0
              THEN compressed_add(
                       explicit_to_compressed(
                           [ o_msp EXCEPT !.ms_type = MST_EXPLICIT, !.mse_elems = << >> ]),
                       element)
              ELSE [ o_msp EXCEPT !.ms_type = MST_EXPLICIT, !.mse_elems = << element >> ]
         [] o_msp.ms_type = MST_EXPLICIT ->
              IF Len(o_msp.mse_elems) = expval
              THEN compressed_add(explicit_to_compressed(o_msp), element)
              ELSE [ o_msp EXCEPT !.mse_elems = qsort(Append(o_msp.mse_elems, element)) ]
         [] o_msp.ms_type = MST_COMPRESSED -> compressed_add(o_msp, element)
         [] o_msp.ms_type = MST_UNDEFINED -> o_msp

\* multiset_add; the type is one of the four in-memory types
multiset_add(o_msp, element) ==
    LET expval == expthresh_value(o_msp.ms_expthresh, o_msp.ms_nbits, o_msp.ms_nregs)
    IN CASE o_msp.ms_type = MST_EMPTY ->
              IF expval = 0
              THEN compressed_add(
                       explicit_to_compressed(
                           [ o_msp EXCEPT !.ms_type = MST_EXPLICIT, !.mse_elems = << >> ]),
                       element)
              ELSE [ o_msp EXCEPT !.ms_type = MST_EXPLICIT, !.mse_elems = << element >> ]
         [] o_msp.ms_type = MST_EXPLICIT ->
              IF bsearch(element, o_msp.mse_elems, Len(o_msp.mse_elems))
              THEN o_msp
              ELSE IF Len(o_msp.mse_elems) = expval
              THEN compressed_add(explicit_to_compressed(o_msp), element)
              ELSE [ o_msp EXCEPT !.mse_elems = qsort(Append(o_msp.mse_elems, element)) ]
         [] o_msp.ms_type = MST_COMPRESSED -> compressed_add(o_msp, element)
         [] o_msp.ms_type = MST_UNDEFINED -> o_msp

\* ------------------------------------------------------------------------
\* Bitstream codec
\* ------------------------------------------------------------------------

\* The buffer after bitstream_pack of vals[1..n] with fields of nbits bits into
\* size zeroed bytes, as bits (bit 1 is the top bit of byte 1).  Field f starts
\* at bit (f-1)*nbits; the writer ORs val << (64 - nbits - used) into the
\* 8-byte window that starts at the cursor's byte, so bit k of val lands on
\* buffer bit q = start + nbits - 1 - k when q is inside the window (the
\* values of the model stay below 2^31).
PackedBits(vals, nbits, size) ==
    [ q1 \in 1 .. 8 * size |->
        LET q == q1 - 1
        IN IF \E f \in 1 .. Len(vals) :
                 LET pos == (f - 1) * nbits
                     ws == pos - (pos % 8)
                     k == pos + nbits - 1 - q
                 IN /\ q >= ws
                    /\ k >= 0
                    /\ k <= 30
                    /\ IntBit(vals[f], k) = 1
           THEN 1 ELSE 0 ]

\* the byte made of bits[8*(b-1)+1 .. 8*b]
ByteOfBits(bits, b) ==
    LET o == 8 * (b - 1)
    IN bits[o + 1] * 128 + bits[o + 2] * 64 + bits[o + 3] * 32 + bits[o + 4] * 16
       + bits[o + 5] * 8 + bits[o + 6] * 4 + bits[o + 7] * 2 + bits[o + 8]

BytesOfBits(bits) == [ b \in 1 .. (Len(bits) \div 8) |-> ByteOfBits(bits, b) ]

\* bit q (0-based, most significant first) of a byte sequence
BufBit(bytes, q) == IntBit(bytes[(q \div 8) + 1], 7 - (q % 8))

\* bitstream_unpack of the field that starts at bit pos: the nbits bits
\* pos .. pos+nbits-1, most significant first, masked by (1 << nbits) - 1
RECURSIVE ReadField(_, _, _)
ReadField(bytes, pos, nbits) ==
    IF nbits = 0 THEN 0
    ELSE 2 * ReadField(bytes, pos, nbits - 1) + BufBit(bytes, pos + nbits - 1)

bitstream_unpack(bytes, fieldno, nbits) == ReadField(bytes, (fieldno - 1) * nbits, nbits)

\* compressed_unpack: [ok, regs]; bytes is the payload
compressed_unpack(i_width, i_nregs, bytes) ==
    LET i_size == Len(bytes)
        bitsz == i_width * i_nregs
    IN IF i_size * 8 < bitsz THEN [ ok |-> FALSE, regs |-> << >> ]
       ELSE IF i_size * 8 - bitsz >= 8 THEN [ ok |-> FALSE, regs |-> << >> ]
       ELSE [ ok |-> TRUE,
              regs |-> [ ndx \in 1 .. i_nregs |-> bitstream_unpack(bytes, ndx, i_width) ] ]

\* the loop of sparse_unpack from chunk ii on: regs[ndx] = val, later chunks win
RECURSIVE SparseFill(_, _, _, _, _, _)
SparseFill(regs, bytes, i_width, chunksz, ii, i_nfilled) ==
    IF ii > i_nfilled THEN regs
    ELSE LET buffer == bitstream_unpack(bytes, ii, chunksz)
             val == buffer % (2 ^ i_width)
             ndx == buffer \div (2 ^ i_width)
         IN SparseFill([ regs EXCEPT ![ndx + 1] = val ],
                       bytes, i_width, chunksz, ii + 1, i_nfilled)

\* sparse_unpack into the pre-zeroed registers: [ok, regs]
sparse_unpack(regs, i_width, i_log2nregs, i_nfilled, bytes) ==
    LET i_size == Len(bytes)
        chunksz == i_log2nregs + i_width
        bitsz == chunksz * i_nfilled
        padsz == i_size * 8 - bitsz
    IN IF padsz >= 8 THEN [ ok |-> FALSE, regs |-> << >> ]
       ELSE [ ok |-> TRUE,
              regs |-> SparseFill(regs, bytes, i_width, chunksz, 1, i_nfilled) ]

\* compressed_pack into a buffer of i_size bytes: [ok, bytes]
compressed_pack(i_regp, i_width, i_nregs, i_size) ==
    LET bitsz == i_width * i_nregs
    IN IF i_size * 8 < bitsz THEN [ ok |-> FALSE, bytes |-> << >> ]
       ELSE IF i_size * 8 - bitsz >= 8 THEN [ ok |-> FALSE, bytes |-> << >> ]
       ELSE [ ok |-> TRUE, bytes |-> BytesOfBits(PackedBits(i_regp, i_width, i_size)) ]

\* the (ndx << i_width) | reg words sparse_pack writes, in register order
RECURSIVE SparseWords(_, _, _, _)
SparseWords(i_regp, i_width, i_log2nregs, ndx) ==
    IF ndx >= Len(i_regp) THEN << >>
    ELSE IF i_regp[ndx + 1] # 0
    THEN << BitOr(ndx * (2 ^ i_width), i_regp[ndx + 1], i_log2nregs + i_width + 8) >>
         \o SparseWords(i_regp, i_width, i_log2nregs, ndx + 1)
    ELSE SparseWords(i_regp, i_width, i_log2nregs, ndx + 1)

\* sparse_pack into a buffer of i_size bytes: [ok, bytes]
sparse_pack(i_regp, i_width, i_nregs, i_log2nregs, i_nfilled, i_size) ==
    LET bitsz == i_nfilled * (i_log2nregs + i_width)
    IN IF i_size * 8 < bitsz THEN [ ok |-> FALSE, bytes |-> << >> ]
       ELSE IF i_size * 8 - bitsz >= 8 THEN [ ok |-> FALSE, bytes |-> << >> ]
       ELSE [ ok |-> TRUE,
              bytes |-> BytesOfBits(PackedBits(
                            SparseWords(i_regp, i_width, i_log2nregs, 0),
                            i_log2nregs + i_width, i_size)) ]

\* ------------------------------------------------------------------------
\* Serialization, version 1
\* ------------------------------------------------------------------------

\* the value of a uint8_t assigned from v
U8(v) == v % 256

numfilled(i_msp) == Cardinality({ ii \in 1 .. Len(i_msp.msc_regs) : i_msp.msc_regs[ii] > 0 })

\* the bug this compares against: the sparseon bit is not written
pack_header_no_sparseon(vers, type, nbits, log2nregs, expthresh, sparseon) ==
    << U8(BitOr(vers * 16, type, 8)),
       U8(BitOr(((nbits - 1) % 8) * 32, log2nregs, 8)),
       U8(encode_expthresh(expthresh)) >>

\* pack_header: the three header bytes.  (nbits - 1) << 5 is computed in
\* size_t and stored in a byte, which keeps ((nbits - 1) mod 8) << 5.
pack_header(vers, type, nbits, log2nregs, expthresh, sparseon) ==
    << U8(BitOr(vers * 16, type, 8)),
       U8(BitOr(((nbits - 1) % 8) * 32, log2nregs, 8)),
       U8(BitOr(sparseon * 64, encode_expthresh(expthresh), 8)) >>

\* unpack_header: the metadata in header bytes 2 and 3
unpack_header(o_msp, i_bitp) ==
    [ o_msp EXCEPT !.ms_nbits = (i_bitp[2] \div 32) + 1,
                   !.ms_log2nregs = i_bitp[2] % 32,
                   !.ms_nregs = 2 ^ (i_bitp[2] % 32),
                   !.ms_expthresh = decode_expthresh(i_bitp[3] % 64),
                   !.ms_sparseon = (i_bitp[3] \div 64) % 2 ]

\* the eight big-endian bytes of a token
TokenBytes(val) ==
    << val[1] \div 256, val[1] % 256, val[2] \div 256, val[2] % 256,
       val[3] \div 256, val[3] % 256, val[4] \div 256, val[4] % 256 >>

\* the token read from i_bitp[ndx+1 .. ndx+8] (ndx is the C index)
TokenAt(i_bitp, ndx) ==
    << i_bitp[ndx + 1] * 256 + i_bitp[ndx + 2], i_bitp[ndx + 3] * 256 + i_bitp[ndx + 4],
       i_bitp[ndx + 5] * 256 + i_bitp[ndx + 6], i_bitp[ndx + 7] * 256 + i_bitp[ndx + 8] >>

\* explicit_validate: TRUE when no error is raised
explicit_validate(elems) ==
    \A ii \in 1 .. Len(elems) - 1 : element_compare(elems[ii], elems[ii + 1]) = -1

\* a multiset_t whose fields were never assigned (the decoder's local)
BlankMultiset == [ UninitMultiset EXCEPT !.ms_type = MST_UNDEFINED ]

UnpackError == [ ok |-> FALSE, ms |-> BlankMultiset, encoded_type |-> 0 ]

\* the bug this compares against: the size of an MST_EMPTY frame is not checked
multiset_unpack_any_empty(i_bitp) ==
    LET i_size == Len(i_bitp)
        hdrsz == 3
        vers == (i_bitp[1] \div 16) % 16
        type == i_bitp[1] % 16
        ms0 == [ BlankMultiset EXCEPT
                   !.ms_type = IF type = MST_SPARSE THEN MST_COMPRESSED ELSE type ]
        hdr == unpack_header(ms0, i_bitp)
        payload == SubSeq(i_bitp, hdrsz + 1, i_size)
        nbits == (i_bitp[2] \div 32) + 1
        log2nregs == i_bitp[2] % 32
        nregs == 2 ^ log2nregs
    IN IF vers # 1 THEN UnpackError
       ELSE CASE type = MST_EMPTY ->
                   [ ok |-> TRUE, ms |-> hdr, encoded_type |-> type ]
              [] type = MST_EXPLICIT ->
                   LET nelem == (i_size - hdrsz) \div 8
                       elems == [ ii \in 1 .. nelem |-> TokenAt(i_bitp, hdrsz + 8 * (ii - 1)) ]
                   IN IF ((i_size - hdrsz) % 8) # 0 THEN UnpackError
                      ELSE IF (i_size - hdrsz) > MS_MAXDATA THEN UnpackError
                      ELSE IF ~explicit_validate(elems) THEN UnpackError
                      ELSE [ ok |-> TRUE,
                             ms |-> [ hdr EXCEPT !.mse_elems = elems ],
                             encoded_type |-> type ]
              [] type = MST_COMPRESSED ->
                   LET bitsz == nbits * nregs
                       packedbytesz == (bitsz + 7) \div 8
                       up == compressed_unpack(nbits, nregs, payload)
                   IN IF (i_size - hdrsz) # packedbytesz THEN UnpackError
                      ELSE IF nregs > MS_MAXDATA THEN UnpackError
                      ELSE IF ~up.ok THEN UnpackError
                      ELSE [ ok |-> TRUE,
                             ms |-> [ hdr EXCEPT !.msc_regs = up.regs ],
                             encoded_type |-> type ]
              [] type = MST_UNDEFINED ->
                   IF i_size # hdrsz THEN UnpackError
                   ELSE [ ok |-> TRUE, ms |-> hdr, encoded_type |-> type ]
              [] type = MST_SPARSE ->
                   LET bitsz == (i_size - hdrsz) * 8
                       chunksz == log2nregs + nbits
                       nfilled == bitsz \div chunksz
                       up == sparse_unpack([ ii \in 1 .. nregs |-> 0 ],
                                           nbits, log2nregs, nfilled, payload)
                   IN IF i_size < hdrsz THEN UnpackError
                      ELSE IF nregs > MS_MAXDATA THEN UnpackError
                      ELSE IF ~up.ok THEN UnpackError
                      ELSE [ ok |-> TRUE,
                             ms |-> [ hdr EXCEPT !.msc_regs = up.regs ],
                             encoded_type |-> type ]
              [] OTHER -> UnpackError

\* multiset_unpack of a frame of at least 3 bytes: [ok, ms, encoded_type];
\* ok = FALSE is ERRCODE_DATA_EXCEPTION
multiset_unpack(i_bitp) ==
    LET i_size == Len(i_bitp)
        hdrsz == 3
        vers == (i_bitp[1] \div 16) % 16
        type == i_bitp[1] % 16
        ms0 == [ BlankMultiset EXCEPT
                   !.ms_type = IF type = MST_SPARSE THEN MST_COMPRESSED ELSE type ]
        hdr == unpack_header(ms0, i_bitp)
        payload == SubSeq(i_bitp, hdrsz + 1, i_size)
        nbits == (i_bitp[2] \div 32) + 1
        log2nregs == i_bitp[2] % 32
        nregs == 2 ^ log2nregs
    IN IF vers # 1 THEN UnpackError
       ELSE CASE type = MST_EMPTY ->
                   IF i_size # hdrsz THEN UnpackError
                   ELSE [ ok |-> TRUE, ms |-> hdr, encoded_type |-> type ]
              [] type = MST_EXPLICIT ->
                   LET nelem == (i_size - hdrsz) \div 8
                       elems == [ ii \in 1 .. nelem |-> TokenAt(i_bitp, hdrsz + 8 * (ii - 1)) ]
                   IN IF ((i_size - hdrsz) % 8) # 0 THEN UnpackError
                      ELSE IF (i_size - hdrsz) > MS_MAXDATA THEN UnpackError
                      ELSE IF ~explicit_validate(elems) THEN UnpackError
                      ELSE [ ok |-> TRUE,
                             ms |-> [ hdr EXCEPT !.mse_elems = elems ],
                             encoded_type |-> type ]
              [] type = MST_COMPRESSED ->
                   LET bitsz == nbits * nregs
                       packedbytesz == (bitsz + 7) \div 8
                       up == compressed_unpack(nbits, nregs, payload)
                   IN IF (i_size - hdrsz) # packedbytesz THEN UnpackError
                      ELSE IF nregs > MS_MAXDATA THEN UnpackError
                      ELSE IF ~up.ok THEN UnpackError
                      ELSE [ ok |-> TRUE,
                             ms |-> [ hdr EXCEPT !.msc_regs = up.regs ],
                             encoded_type |-> type ]
              [] type = MST_UNDEFINED ->
                   IF i_size # hdrsz THEN UnpackError
                   ELSE [ ok |-> TRUE, ms |-> hdr, encoded_type |-> type ]
              [] type = MST_SPARSE ->
                   LET bitsz == (i_size - hdrsz) * 8
                       chunksz == log2nregs + nbits
                       nfilled == bitsz \div chunksz
                       up == sparse_unpack([ ii \in 1 .. nregs |-> 0 ],
                                           nbits, log2nregs, nfilled, payload)
                   IN IF i_size < hdrsz THEN UnpackError
                      ELSE IF nregs > MS_MAXDATA THEN UnpackError
                      ELSE IF ~up.ok THEN UnpackError
                      ELSE [ ok |-> TRUE,
                             ms |-> [ hdr EXCEPT !.msc_regs = up.regs ],
                             encoded_type |-> type ]
              [] OTHER -> UnpackError

\* the bug this compares against: the sparseon flag of the sketch is not
\* consulted
UseSparseWhateverFlag(i_msp, max_sparse) ==
    LET nfilled == numfilled(i_msp)
        sparsebitsz == nfilled * (i_msp.ms_log2nregs + i_msp.ms_nbits)
        cmprssbitsz == i_msp.ms_nregs * i_msp.ms_nbits
    IN \/ (max_sparse # -1 /\ nfilled <= max_sparse)
       \/ (max_sparse = -1 /\ sparsebitsz < cmprssbitsz)

\* the decision shared by multiset_pack and multiset_packed_size: TRUE when a
\* compressed multiset is written as MST_SPARSE
UseSparse(i_msp, max_sparse) ==
    LET nfilled == numfilled(i_msp)
        sparsebitsz == nfilled * (i_msp.ms_log2nregs + i_msp.ms_nbits)
        cmprssbitsz == i_msp.ms_nregs * i_msp.ms_nbits
    IN /\ i_msp.ms_sparseon # 0
       /\ \/ (max_sparse # -1 /\ nfilled <= max_sparse)
          \/ (max_sparse = -1 /\ sparsebitsz < cmprssbitsz)

\* the bug this compares against: a compressed multiset is always sized as
\* MST_COMPRESSED
multiset_packed_size_dense(i_msp, max_sparse) ==
    CASE i_msp.ms_type = MST_EMPTY -> 3
      [] i_msp.ms_type = MST_EXPLICIT -> 3 + (8 * Len(i_msp.mse_elems))
      [] i_msp.ms_type = MST_COMPRESSED -> 3 + ((i_msp.ms_nregs * i_msp.ms_nbits + 7) \div 8)
      [] i_msp.ms_type = MST_UNDEFINED -> 3

\* multiset_packed_size with g_max_sparse = max_sparse (g_output_version is 1)
multiset_packed_size(i_msp, max_sparse) ==
    CASE i_msp.ms_type = MST_EMPTY -> 3
      [] i_msp.ms_type = MST_EXPLICIT -> 3 + (8 * Len(i_msp.mse_elems))
      [] i_msp.ms_type = MST_COMPRESSED ->
           LET sparsebitsz == numfilled(i_msp) * (i_msp.ms_log2nregs + i_msp.ms_nbits)
               cmprssbitsz == i_msp.ms_nregs * i_msp.ms_nbits
           IN IF UseSparse(i_msp, max_sparse)
              THEN 3 + ((sparsebitsz + 7) \div 8)
              ELSE 3 + ((cmprssbitsz + 7) \div 8)
      [] i_msp.ms_type = MST_UNDEFINED -> 3

\* the concatenation of the big-endian bytes of elems[ii..]
RECURSIVE ExplicitBytes(_, _)
ExplicitBytes(elems, ii) ==
    IF ii > Len(elems) THEN << >>
    ELSE TokenBytes(elems[ii]) \o ExplicitBytes(elems, ii + 1)

\* multiset_pack into a buffer of i_size bytes with g_output_version = vers
\* and g_max_sparse = max_sparse: [ok, bytes]
multiset_pack(i_msp, i_size, vers, max_sparse) ==
    LET nbits == i_msp.ms_nbits
        log2nregs == i_msp.ms_log2nregs
        expthresh == i_msp.ms_expthresh
        sparseon == i_msp.ms_sparseon
    IN CASE i_msp.ms_type = MST_EMPTY ->
              [ ok |-> TRUE,
                bytes |-> pack_header(vers, MST_EMPTY, nbits, log2nregs, expthresh, sparseon) ]
         [] i_msp.ms_type = MST_EXPLICIT ->
              [ ok |-> TRUE,
                bytes |-> pack_header(vers, MST_EXPLICIT, nbits, log2nregs, expthresh, sparseon)
                          \o ExplicitBytes(i_msp.mse_elems, 1) ]
         [] i_msp.ms_type = MST_COMPRESSED ->
              IF UseSparse(i_msp, max_sparse)
              THEN LET body == sparse_pack(i_msp.msc_regs, nbits, i_msp.ms_nregs, log2nregs,
                                           numfilled(i_msp), i_size - 3)
                   IN [ ok |-> body.ok,
                        bytes |-> pack_header(vers, MST_SPARSE, nbits, log2nregs,
                                              expthresh, sparseon) \o body.bytes ]
              ELSE LET body == compressed_pack(i_msp.msc_regs, nbits, i_msp.ms_nregs,
                                               i_size - 3)
                   IN [ ok |-> body.ok,
                        bytes |-> pack_header(vers, MST_COMPRESSED, nbits, log2nregs,
                                              expthresh, sparseon) \o body.bytes ]
         [] i_msp.ms_type = MST_UNDEFINED ->
              [ ok |-> TRUE,
                bytes |-> pack_header(vers, MST_UNDEFINED, nbits, log2nregs,
                                      expthresh, sparseon) ]

\* ------------------------------------------------------------------------
\* Union
\* ------------------------------------------------------------------------

\* the loop of explicit_union from element ii of the source on; orig_nelem is
\* the size of the target when the union started
RECURSIVE ExplicitUnionFrom(_, _, _, _, _)
ExplicitUnionFrom(o_msp, i_elems, ii, orig_nelem, expval) ==
    IF ii > Len(i_elems) THEN o_msp
    ELSE LET element == i_elems[ii]
             next ==
                 IF o_msp.ms_type = MST_EXPLICIT
                 THEN IF bsearch(element, o_msp.mse_elems, orig_nelem)
                      THEN o_msp
                      ELSE IF Len(o_msp.mse_elems) < expval
                      THEN [ o_msp EXCEPT !.mse_elems = Append(@, element) ]
                      ELSE compressed_add(explicit_to_compressed(o_msp), element)
                 ELSE compressed_add(o_msp, element)
         IN ExplicitUnionFrom(next, i_elems, ii + 1, orig_nelem, expval)

\* the bug this compares against: the source list replaces the target's
explicit_union_replaces(o_msp, i_elems) ==
    [ o_msp EXCEPT !.mse_elems = i_elems ]

explicit_union(o_msp, i_elems) ==
    LET expval == expthresh_value(o_msp.ms_expthresh, o_msp.ms_nbits, o_msp.ms_nregs)
        merged == ExplicitUnionFrom(o_msp, i_elems, 1, Len(o_msp.mse_elems), expval)
    IN IF merged.ms_type = MST_EXPLICIT
       THEN [ merged EXCEPT !.mse_elems = qsort(@) ]
       ELSE merged

\* the bug this compares against: the copy of the source made for an Empty
\* target is made for every target
multiset_union_copies(o_msap, i_msbp) ==
    IF o_msap.ms_type = MST_UNDEFINED \/ i_msbp.ms_type = MST_UNDEFINED
    THEN [ ok |-> TRUE, ms |-> [ o_msap EXCEPT !.ms_type = MST_UNDEFINED ] ]
    ELSE IF i_msbp.ms_type = MST_EMPTY
    THEN [ ok |-> TRUE, ms |-> o_msap ]
    ELSE [ ok |-> TRUE, ms |-> i_msbp ]

\* the bug this compares against: the union of an explicit target with a
\* compressed source is the copy of the source, without the target's elements
multiset_union_drops_explicit(o_msap, i_msbp) ==
    LET typea == o_msap.ms_type
        typeb == i_msbp.ms_type
    IN IF typea = MST_UNDEFINED \/ typeb = MST_UNDEFINED
       THEN [ ok |-> TRUE, ms |-> [ o_msap EXCEPT !.ms_type = MST_UNDEFINED ] ]
       ELSE IF typeb = MST_EMPTY
       THEN [ ok |-> TRUE, ms |-> o_msap ]
       ELSE IF typea = MST_EMPTY
       THEN [ ok |-> TRUE, ms |-> i_msbp ]
       ELSE IF typea = MST_EXPLICIT /\ typeb = MST_EXPLICIT
       THEN [ ok |-> TRUE, ms |-> explicit_union(o_msap, i_msbp.mse_elems) ]
       ELSE IF typea = MST_EXPLICIT /\ typeb = MST_COMPRESSED
       THEN [ ok |-> TRUE, ms |-> i_msbp ]
       ELSE IF typea = MST_COMPRESSED /\ typeb = MST_EXPLICIT
       THEN [ ok |-> TRUE, ms |-> compressed_explicit_union(o_msap, i_msbp) ]
       ELSE IF typea = MST_COMPRESSED /\ typeb = MST_COMPRESSED
       THEN IF o_msap.ms_nregs # i_msbp.ms_nregs
            THEN [ ok |-> FALSE, ms |-> o_msap ]
            ELSE [ ok |-> TRUE,
                   ms |-> [ o_msap EXCEPT !.msc_regs =
                              [ ii \in 1 .. o_msap.ms_nregs |->
                                  IF o_msap.msc_regs[ii] < i_msbp.msc_regs[ii]
                                  THEN i_msbp.msc_regs[ii]
                                  ELSE o_msap.msc_regs[ii] ] ] ]
       ELSE [ ok |-> FALSE, ms |-> o_msap ]

\* the bug this compares against: an MST_UNDEFINED source is skipped as an
\* MST_EMPTY source is
multiset_union_skips_undefined(o_msap, i_msbp) ==
    LET typea == o_msap.ms_type
        typeb == i_msbp.ms_type
    IN IF typea = MST_UNDEFINED
       THEN [ ok |-> TRUE, ms |-> [ o_msap EXCEPT !.ms_type = MST_UNDEFINED ] ]
       ELSE IF typeb = MST_EMPTY \/ typeb = MST_UNDEFINED
       THEN [ ok |-> TRUE, ms |-> o_msap ]
       ELSE IF typea = MST_EMPTY
       THEN [ ok |-> TRUE, ms |-> i_msbp ]
       ELSE IF typea = MST_EXPLICIT /\ typeb = MST_EXPLICIT
       THEN [ ok |-> TRUE, ms |-> explicit_union(o_msap, i_msbp.mse_elems) ]
       ELSE IF typea = MST_EXPLICIT /\ typeb = MST_COMPRESSED
       THEN [ ok |-> TRUE, ms |-> compressed_explicit_union(i_msbp, o_msap) ]
       ELSE IF typea = MST_COMPRESSED /\ typeb = MST_EXPLICIT
       THEN [ ok |-> TRUE, ms |-> compressed_explicit_union(o_msap, i_msbp) ]
       ELSE IF typea = MST_COMPRESSED /\ typeb = MST_COMPRESSED
       THEN IF o_msap.ms_nregs # i_msbp.ms_nregs
            THEN [ ok |-> FALSE, ms |-> o_msap ]
            ELSE [ ok |-> TRUE,
                   ms |-> [ o_msap EXCEPT !.msc_regs =
                              [ ii \in 1 .. o_msap.ms_nregs |->
                                  IF o_msap.msc_regs[ii] < i_msbp.msc_regs[ii]
                                  THEN i_msbp.msc_regs[ii]
                                  ELSE o_msap.msc_regs[ii] ] ] ]
       ELSE [ ok |-> FALSE, ms |-> o_msap ]

\* multiset_union on in-memory types: [ok, ms]; ok = FALSE is
\* ERRCODE_DATA_EXCEPTION and leaves the target as it was
multiset_union(o_msap, i_msbp) ==
    LET typea == o_msap.ms_type
        typeb == i_msbp.ms_type
    IN IF typea = MST_UNDEFINED \/ typeb = MST_UNDEFINED
       THEN [ ok |-> TRUE, ms |-> [ o_msap EXCEPT !.ms_type = MST_UNDEFINED ] ]
       ELSE IF typeb = MST_EMPTY
       THEN [ ok |-> TRUE, ms |-> o_msap ]
       ELSE IF typea = MST_EMPTY
       THEN [ ok |-> TRUE, ms |-> i_msbp ]
       ELSE IF typea = MST_EXPLICIT /\ typeb = MST_EXPLICIT
       THEN [ ok |-> TRUE, ms |-> explicit_union(o_msap, i_msbp.mse_elems) ]
       ELSE IF typea = MST_EXPLICIT /\ typeb = MST_COMPRESSED
       THEN [ ok |-> TRUE, ms |-> compressed_explicit_union(i_msbp, o_msap) ]
       ELSE IF typea = MST_COMPRESSED /\ typeb = MST_EXPLICIT
       THEN [ ok |-> TRUE, ms |-> compressed_explicit_union(o_msap, i_msbp) ]
       ELSE IF typea = MST_COMPRESSED /\ typeb = MST_COMPRESSED
       THEN IF o_msap.ms_nregs # i_msbp.ms_nregs
            THEN [ ok |-> FALSE, ms |-> o_msap ]
            ELSE [ ok |-> TRUE,
                   ms |-> [ o_msap EXCEPT !.msc_regs =
                              [ ii \in 1 .. o_msap.ms_nregs |->
                                  IF o_msap.msc_regs[ii] < i_msbp.msc_regs[ii]
                                  THEN i_msbp.msc_regs[ii]
                                  ELSE o_msap.msc_regs[ii] ] ] ]
       ELSE [ ok |-> FALSE, ms |-> o_msap ]

\* ------------------------------------------------------------------------
\* Cardinality
\* ------------------------------------------------------------------------
\* A double is modelled in thousandths, rounded down.  The result of
\* multiset_card is a record with kind
\*   "value"     the double milli / 1000
\*   "null"      -1.0, which every caller turns into NULL
\*   "error"     ERRCODE_DATA_EXCEPTION
\*   "negative"  the large-range branch: (-1 * two_to_l) is computed in
\*               uint64, so the result is (2^64 - 2^L) * log(1 - E/2^L) < 0
\*   "nan"       the same branch with E >= 2^L: log of a number <= 0
\*   "undefined" the branch compares with or uses 1ULL << L for L >= 64

\* 1000 * ln(n) for n in 1 .. 32, rounded to the nearest integer
LnMilli ==
    << 0, 693, 1099, 1386, 1609, 1792, 1946, 2079, 2197, 2303, 2398, 2485,
       2565, 2639, 2708, 2773, 2833, 2890, 2944, 2996, 3045, 3091, 3135, 3178,
       3219, 3258, 3296, 3332, 3367, 3401, 3434, 3466 >>

\* gamma_register_count_squared in thousandths, for nregs > 8
gamma_register_count_squared(nregs) ==
    CASE nregs = 16 -> 673 * nregs * nregs
      [] nregs = 32 -> 697 * nregs * nregs
      [] nregs = 64 -> 709 * nregs * nregs
      [] OTHER -> ((721300 * nregs) \div (1000 * nregs + 1079)) * nregs * nregs

\* sum of 1.0 / (1L << rval) over the registers, in 1/1024
RECURSIVE RegisterSum(_, _)
RegisterSum(regs, ii) ==
    IF ii > Len(regs) THEN 0
    ELSE (IF regs[ii] > 10 THEN 0 ELSE 1024 \div (2 ^ regs[ii])) + RegisterSum(regs, ii + 1)

\* the bug this compares against: eight registers are enough for an estimate
multiset_card_accepts_eight(i_msp) ==
    LET nbits == i_msp.ms_nbits
        log2m == i_msp.ms_log2nregs
        \* (1ULL << nbits) - 1 - 1 + log2m, in uint64
        total_bits == IF (2 ^ nbits) - 2 + log2m < 0 THEN 64 ELSE (2 ^ nbits) - 2 + log2m
    IN CASE i_msp.ms_type = MST_EMPTY -> [ kind |-> "value", milli |-> 0 ]
         [] i_msp.ms_type = MST_EXPLICIT ->
              [ kind |-> "value", milli |-> 1000 * Len(i_msp.mse_elems) ]
         [] i_msp.ms_type = MST_COMPRESSED ->
              LET nregs == i_msp.ms_nregs
                  sum == Max(1, RegisterSum(i_msp.msc_regs, 1))
                  zero_count == Cardinality({ ii \in 1 .. nregs : i_msp.msc_regs[ii] = 0 })
                  estimator == (gamma_register_count_squared(nregs) * 1024) \div sum
              IN IF nregs < 8 THEN [ kind |-> "error", milli |-> 0 ]
                 ELSE IF zero_count # 0 /\ estimator < (5000 * nregs) \div 2
                 THEN [ kind |-> "value",
                        milli |-> nregs * (LnMilli[nregs] - LnMilli[zero_count]) ]
                 ELSE IF total_bits >= 64
                 THEN [ kind |-> "undefined", milli |-> 0 ]
                 ELSE IF total_bits > 30
                 THEN [ kind |-> "value", milli |-> estimator ]
                 ELSE IF total_bits <= 21
                 THEN IF estimator <= ((2 ^ total_bits) * 1000) \div 30
                      THEN [ kind |-> "value", milli |-> estimator ]
                      ELSE IF estimator >= (2 ^ total_bits) * 1000
                      THEN [ kind |-> "nan", milli |-> 0 ]
                      ELSE [ kind |-> "negative", milli |-> 0 ]
                 ELSE IF estimator \div 1000 <= (2 ^ total_bits) \div 30
                 THEN [ kind |-> "value", milli |-> estimator ]
                 ELSE IF estimator \div 1000 >= 2 ^ total_bits
                 THEN [ kind |-> "nan", milli |-> 0 ]
                 ELSE [ kind |-> "negative", milli |-> 0 ]
         [] i_msp.ms_type = MST_UNDEFINED -> [ kind |-> "null", milli |-> 0 ]

multiset_card(i_msp) ==
    LET nbits == i_msp.ms_nbits
        log2m == i_msp.ms_log2nregs
        \* (1ULL << nbits) - 1 - 1 + log2m, in uint64
        total_bits == IF (2 ^ nbits) - 2 + log2m < 0 THEN 64 ELSE (2 ^ nbits) - 2 + log2m
    IN CASE i_msp.ms_type = MST_EMPTY -> [ kind |-> "value", milli |-> 0 ]
         [] i_msp.ms_type = MST_EXPLICIT ->
              [ kind |-> "value", milli |-> 1000 * Len(i_msp.mse_elems) ]
         [] i_msp.ms_type = MST_COMPRESSED ->
              LET nregs == i_msp.ms_nregs
                  sum == Max(1, RegisterSum(i_msp.msc_regs, 1))
                  zero_count == Cardinality({ ii \in 1 .. nregs : i_msp.msc_regs[ii] = 0 })
                  estimator == (gamma_register_count_squared(nregs) * 1024) \div sum
              IN IF nregs <= 8 THEN [ kind |-> "error", milli |-> 0 ]
                 ELSE IF zero_count # 0 /\ estimator < (5000 * nregs) \div 2
                 THEN [ kind |-> "value",
                        milli |-> nregs * (LnMilli[nregs] - LnMilli[zero_count]) ]
                 ELSE IF total_bits >= 64
                 THEN [ kind |-> "undefined", milli |-> 0 ]
                 ELSE IF total_bits > 30
                 THEN [ kind |-> "value", milli |-> estimator ]
                 ELSE IF total_bits <= 21
                 THEN IF estimator <= ((2 ^ total_bits) * 1000) \div 30
                      THEN [ kind |-> "value", milli |-> estimator ]
                      ELSE IF estimator >= (2 ^ total_bits) * 1000
                      THEN [ kind |-> "nan", milli |-> 0 ]
                      ELSE [ kind |-> "negative", milli |-> 0 ]
                 ELSE IF estimator \div 1000 <= (2 ^ total_bits) \div 30
                 THEN [ kind |-> "value", milli |-> estimator ]
                 ELSE IF estimator \div 1000 >= 2 ^ total_bits
                 THEN [ kind |-> "nan", milli |-> 0 ]
                 ELSE [ kind |-> "negative", milli |-> 0 ]
         [] i_msp.ms_type = MST_UNDEFINED -> [ kind |-> "null", milli |-> 0 ]

\* ------------------------------------------------------------------------
\* Inputs
\* ------------------------------------------------------------------------

\* tokens 8*k and 2^63: both signs, ranks 0 and up, registers 0 and 8
TokenInputs == { << 0, 0, 0, 8 * k >> : k \in 0 .. MaxTokK } \cup { << 32768, 0, 0, 0 >> }

Log2mInputs == (MaxLog2m - 1) .. MaxLog2m
RegwidthInputs == 0 .. MaxRegwidth
ExpthreshInputs == { -1, 0 } \cup { 2 ^ k : k \in 0 .. MaxExpLog2 }
SparseonInputs == { 0, 1 }

\* modifiers << log2m, regwidth, expthresh, sparseon >> that check_modifiers accepts
ParamInputs == Log2mInputs \X RegwidthInputs \X ExpthreshInputs \X SparseonInputs

\* modifiers that check_modifiers rejects, one per test
BadParamInputs ==
    { << 32, 1, -1, 1 >>, << MaxLog2m, 8, -1, 1 >>, << MaxLog2m, 1, -2, 1 >>,
      << MaxLog2m, 1, 3, 1 >>, << MaxLog2m, 1, -1, 2 >> }

\* modifiers passed to a transition function: every combination on the first
\* call, one accepted and one rejected combination on the later ones
TransParamInputs(ms) ==
    IF ms.ms_type = MST_UNINIT THEN ParamInputs \cup BadParamInputs
    ELSE { << MaxLog2m, MaxRegwidth, -1, 1 >>, << 32, 1, -1, 1 >> }

\* values of g_max_sparse that hll_set_max_sparse accepts
MaxSparseInputs == { -1, 0, 1 }

\* ------------------------------------------------------------------------
\* The functions on packed values
\* ------------------------------------------------------------------------
\* Each returns [err, bytes]: err is "" or the error class raised by ereport.

DataError == [ err |-> "Data", bytes |-> << >> ]

\* the palloc of multiset_packed_size bytes followed by multiset_pack
PackDatum(i_msp, vers, max_sparse) ==
    LET csz == multiset_packed_size(i_msp, max_sparse)
        packed == multiset_pack(i_msp, csz, vers, max_sparse)
    IN IF packed.ok THEN [ err |-> "", bytes |-> packed.bytes ] ELSE DataError

hll_empty4(log2m, regwidth, expthresh, sparseon, vers, max_sparse) ==
    IF ~check_modifiers(log2m, regwidth, expthresh, sparseon)
    THEN [ err |-> "InvalidParameter", bytes |-> << >> ]
    ELSE PackDatum(EmptyMultiset(log2m, regwidth, expthresh, sparseon), vers, max_sparse)

hll_add(ab, val, vers, max_sparse) ==
    LET msa == multiset_unpack(ab)
    IN IF ~msa.ok THEN DataError
       ELSE PackDatum(multiset_add(msa.ms, val), vers, max_sparse)

\* hll_union once both arguments went through multiset_unpack
UnionUnpacked(msa, msb, vers, max_sparse) ==
    IF ~msa.ok \/ ~msb.ok THEN DataError
    ELSE IF ~check_metadata(msa.ms, msb.ms) THEN DataError
    ELSE LET u == multiset_union(msa.ms, msb.ms)
         IN IF ~u.ok THEN DataError ELSE PackDatum(u.ms, vers, max_sparse)

hll_union(ab, bb, vers, max_sparse) ==
    UnionUnpacked(multiset_unpack(ab), multiset_unpack(bb), vers, max_sparse)

\* hll_cardinality: the result of multiset_card, or an error
hll_cardinality(ab) ==
    LET ms == multiset_unpack(ab)
    IN IF ~ms.ok THEN [ kind |-> "error", milli |-> 0 ] ELSE multiset_card(ms.ms)

\* ------------------------------------------------------------------------
\* Packed values handed to the union functions
\* ------------------------------------------------------------------------

\* a frame with the Undefined tag (no function of the program writes one for a
\* sketch that was not Undefined already: it reaches the program as input)
UndefinedFrame(p) ==
    multiset_pack([ EmptyMultiset(p[1], p[2], p[3], p[4]) EXCEPT !.ms_type = MST_UNDEFINED ],
                  3, 1, -1).bytes

\* the values hll_empty4 and one hll_add build for the modifiers p, under every
\* setting of g_max_sparse
FramesOf(p) ==
    LET e == hll_empty4(p[1], p[2], p[3], p[4], 1, -1).bytes
        ones == { hll_add(e, t, 1, ms).bytes : t \in TokenInputs, ms \in MaxSparseInputs }
    IN { e, UndefinedFrame(p) } \cup ones

\* values multiset_unpack does not accept: an MST_EMPTY frame of four bytes
\* and a frame of schema version 2
MalformedFrames == { << 17, 0, 0, 0 >>, << 33, 0, 0 >> }

OperandFrames == UNION { FramesOf(p) : p \in ParamInputs } \cup MalformedFrames

\* each operand with what multiset_unpack makes of it
Operands == { [ bytes |-> f, unpacked |-> multiset_unpack(f) ] : f \in OperandFrames }

\* ------------------------------------------------------------------------
\* State
\* ------------------------------------------------------------------------

VARIABLES
    msap,                 \* the aggregation state (multiset_t *), MST_UNINIT at first
    datum,                \* the packed hll value a query holds, << >> before the first
    ret,                  \* the last call: function, error class, type of msap before it
    hist,                 \* the tokens folded into msap while only adds were folded,
                          \* and whether an MST_UNDEFINED value was folded
    g_default_log2m,
    g_default_regwidth,
    g_default_expthresh,
    g_default_sparseon,
    g_max_sparse,
    g_output_version

globals == << g_default_log2m, g_default_regwidth, g_default_expthresh,
              g_default_sparseon, g_max_sparse, g_output_version >>

vars == << msap, datum, ret, hist, globals >>

Init ==
    /\ msap = UninitMultiset
    /\ datum = << >>
    /\ ret = [ fn |-> "", err |-> "", pre_type |-> MST_UNINIT ]
    /\ hist = [ pure |-> TRUE, adds |-> { }, undef |-> FALSE ]
    /\ g_default_log2m = DEFAULT_LOG2M
    /\ g_default_regwidth = DEFAULT_REGWIDTH
    /\ g_default_expthresh = DEFAULT_EXPTHRESH
    /\ g_default_sparseon = DEFAULT_SPARSEON
    /\ g_max_sparse = -1
    /\ g_output_version = 1

Returned(fn, err) == [ fn |-> fn, err |-> err, pre_type |-> msap.ms_type ]

\* ------------------------------------------------------------------------
\* Aggregate transition and final functions
\* ------------------------------------------------------------------------

\* the bug this compares against: the state is set up from the modifiers on
\* every call
hll_add_trans4_resets(ms, val, log2m, regwidth, expthresh, sparseon) ==
    IF ~check_modifiers(log2m, regwidth, expthresh, sparseon)
    THEN [ err |-> "InvalidParameter", ms |-> ms ]
    ELSE [ err |-> "",
           ms |-> multiset_add(
                      [ EmptyMultiset(log2m, regwidth, expthresh, sparseon) EXCEPT
                            !.ms_type = IF ms.ms_type = MST_UNINIT THEN MST_EMPTY ELSE ms.ms_type,
                            !.mse_elems = ms.mse_elems,
                            !.msc_regs = ms.msc_regs ],
                      val) ]

\* hll_add_trans4 with a non-null value: [err, ms], the error raised and the
\* state afterwards.  The modifiers are read only when the state is MST_UNINIT.
hll_add_trans4(ms, val, log2m, regwidth, expthresh, sparseon) ==
    IF ms.ms_type = MST_UNINIT
    THEN IF ~check_modifiers(log2m, regwidth, expthresh, sparseon)
         THEN [ err |-> "InvalidParameter", ms |-> ms ]
         ELSE [ err |-> "",
                ms |-> multiset_add(EmptyMultiset(log2m, regwidth, expthresh, sparseon), val) ]
    ELSE [ err |-> "", ms |-> multiset_add(ms, val) ]

\* the bug this compares against: the metadata of the argument is cloned into
\* the state before it is compared
hll_union_trans_clones_first(ms, msb) ==
    IF ~msb.ok THEN [ err |-> "Data", ms |-> ms ]
    ELSE IF ms.ms_type # MST_UNINIT /\ ~check_metadata(ms, msb.ms)
    THEN [ err |-> "Data", ms |-> copy_metadata(ms, msb.ms) ]
    ELSE LET ms0 == IF ms.ms_type = MST_UNINIT
                    THEN [ copy_metadata(ms, msb.ms) EXCEPT !.ms_type = MST_EMPTY ]
                    ELSE ms
             u == multiset_union(ms0, msb.ms)
         IN IF ~u.ok THEN [ err |-> "Data", ms |-> u.ms ] ELSE [ err |-> "", ms |-> u.ms ]

\* hll_union_trans with a non-null packed value that multiset_unpack turned
\* into msb: [err, ms], the error raised and what msap points to afterwards
hll_union_trans(ms, msb) ==
    IF ~msb.ok THEN [ err |-> "Data", ms |-> ms ]
    ELSE IF ms.ms_type # MST_UNINIT /\ ~check_metadata(ms, msb.ms)
    THEN [ err |-> "Data", ms |-> ms ]
    ELSE LET ms0 == IF ms.ms_type = MST_UNINIT
                    THEN [ copy_metadata(ms, msb.ms) EXCEPT !.ms_type = MST_EMPTY ]
                    ELSE ms
             u == multiset_union(ms0, msb.ms)
         IN IF ~u.ok THEN [ err |-> "Data", ms |-> u.ms ] ELSE [ err |-> "", ms |-> u.ms ]

HllAddTrans4(val, log2m, regwidth, expthresh, sparseon) ==
    \E r \in { hll_add_trans4(msap, val, log2m, regwidth, expthresh, sparseon) } :
       /\ msap' = r.ms
       /\ hist' = IF r.err = "" /\ hist.pure THEN [ hist EXCEPT !.adds = @ \cup { val } ]
                  ELSE hist
       /\ ret' = Returned("hll_add_trans4", r.err)
       /\ UNCHANGED << datum, globals >>

HllUnionTrans(arg) ==
    \E r \in { hll_union_trans(msap, arg.unpacked) } :
       /\ msap' = r.ms
       /\ hist' = IF r.err = ""
                  THEN [ pure |-> FALSE, adds |-> { },
                         undef |-> hist.undef \/ arg.unpacked.ms.ms_type = MST_UNDEFINED ]
                  ELSE hist
       /\ ret' = Returned("hll_union_trans", r.err)
       /\ UNCHANGED << datum, globals >>

\* a transition function called with a NULL value: the state is returned as it is
HllTransNull ==
    /\ ret' = Returned("trans_null", "")
    /\ UNCHANGED << msap, hist, datum, globals >>

\* the bug this compares against: no result for an MST_EMPTY state either
hll_pack_null_when_empty(ms, vers, max_sparse) ==
    IF ms.ms_type \in { MST_UNINIT, MST_EMPTY }
    THEN [ null |-> TRUE, err |-> "", bytes |-> << >> ]
    ELSE LET d == PackDatum(ms, vers, max_sparse)
         IN [ null |-> FALSE, err |-> d.err, bytes |-> d.bytes ]

\* what hll_pack returns for the state: [null, err, bytes]
hll_pack(ms, vers, max_sparse) ==
    IF ms.ms_type = MST_UNINIT
    THEN [ null |-> TRUE, err |-> "", bytes |-> << >> ]
    ELSE LET d == PackDatum(ms, vers, max_sparse)
         IN [ null |-> FALSE, err |-> d.err, bytes |-> d.bytes ]

\* what hll_card_unpacked returns for the state: a multiset_card result
hll_card_unpacked(ms) ==
    IF ms.ms_type = MST_UNINIT THEN [ kind |-> "null", milli |-> 0 ] ELSE multiset_card(ms)

\* hll_floor_card_unpacked and hll_ceil_card_unpacked: the cardinality with
\* its value, when it is a value, rounded down or up to a whole number
hll_floor_card_unpacked(ms) ==
    LET c == hll_card_unpacked(ms)
    IN IF c.kind = "value" THEN [ c EXCEPT !.milli = 1000 * (c.milli \div 1000) ] ELSE c

hll_ceil_card_unpacked(ms) ==
    LET c == hll_card_unpacked(ms)
    IN IF c.kind = "value" THEN [ c EXCEPT !.milli = 1000 * ((c.milli + 999) \div 1000) ]
       ELSE c

\* the bug this compares against: the final function releases the state
HllPackFrees ==
    /\ ret' = Returned("hll_pack", hll_pack(msap, g_output_version, g_max_sparse).err)
    /\ msap' = UninitMultiset
    /\ UNCHANGED << hist, datum, globals >>

HllPack ==
    /\ ret' = Returned("hll_pack", hll_pack(msap, g_output_version, g_max_sparse).err)
    /\ UNCHANGED << msap, hist, datum, globals >>

HllCardUnpacked ==
    /\ ret' = Returned("hll_card_unpacked",
                       IF hll_card_unpacked(msap).kind = "error" THEN "Data" ELSE "")
    /\ UNCHANGED << msap, hist, datum, globals >>

HllFloorCardUnpacked ==
    /\ ret' = Returned("hll_floor_card_unpacked",
                       IF hll_floor_card_unpacked(msap).kind = "error" THEN "Data" ELSE "")
    /\ UNCHANGED << msap, hist, datum, globals >>

HllCeilCardUnpacked ==
    /\ ret' = Returned("hll_ceil_card_unpacked",
                       IF hll_ceil_card_unpacked(msap).kind = "error" THEN "Data" ELSE "")
    /\ UNCHANGED << msap, hist, datum, globals >>

Next ==
    \/ \E val \in TokenInputs, p \in TransParamInputs(msap) :
           HllAddTrans4(val, p[1], p[2], p[3], p[4])
    \/ \E arg \in Operands : HllUnionTrans(arg)
    \/ HllTransNull
    \/ HllPack
    \/ HllCardUnpacked
    \/ HllFloorCardUnpacked
    \/ HllCeilCardUnpacked

Spec == Init /\ [][Next]_vars

\* ------------------------------------------------------------------------
\* The functions on packed values, applied to the value a query holds
\* ------------------------------------------------------------------------

\* the type nibble of the value held, MST_UNINIT when there is none yet
ValueType(d) == IF d = << >> THEN MST_UNINIT ELSE d[1] % 16

ValueReturned(fn, result) ==
    \E r \in { result } :
       /\ ret' = [ fn |-> fn, err |-> r.err, pre_type |-> ValueType(datum) ]
       /\ datum' = IF r.err = "" THEN r.bytes ELSE datum
       /\ UNCHANGED << msap, hist, globals >>

HllEmpty4(log2m, regwidth, expthresh, sparseon) ==
    ValueReturned("hll_empty4",
                  hll_empty4(log2m, regwidth, expthresh, sparseon,
                             g_output_version, g_max_sparse))

\* hll_empty0: hll_empty4 on the four defaults
HllEmpty0 ==
    ValueReturned("hll_empty0",
                  hll_empty4(g_default_log2m, g_default_regwidth, g_default_expthresh,
                             g_default_sparseon, g_output_version, g_max_sparse))

HllAdd(val) ==
    /\ datum # << >>
    /\ ValueReturned("hll_add", hll_add(datum, val, g_output_version, g_max_sparse))

\* hll_union of the value held (unpacked: msa) with the packed value arg.bytes
HllUnion(msa, arg) ==
    /\ datum # << >>
    /\ ValueReturned("hll_union",
                     UnionUnpacked(msa, arg.unpacked, g_output_version, g_max_sparse))

HllCardinality ==
    /\ datum # << >>
    /\ ValueReturned("hll_cardinality",
                     [ err |-> IF hll_cardinality(datum).kind = "error" THEN "Data" ELSE "",
                       bytes |-> datum ])

NextValue ==
    \/ \E p \in ParamInputs \cup BadParamInputs : HllEmpty4(p[1], p[2], p[3], p[4])
    \/ HllEmpty0
    \/ \E val \in TokenInputs : HllAdd(val)
    \/ LET msa == multiset_unpack(datum) IN \E arg \in Operands : HllUnion(msa, arg)
    \/ HllCardinality

SpecValue == Init /\ [][NextValue]_vars

\* ------------------------------------------------------------------------
\* The settings of the process and the aggregate that reads the defaults
\* ------------------------------------------------------------------------

\* hll_set_output_version: [err, val, vers], the error raised, the value
\* returned and g_output_version afterwards
hll_set_output_version(old_vers, vers) ==
    IF vers # 1 THEN [ err |-> "Data", val |-> << >>, vers |-> old_vers ]
    ELSE [ err |-> "", val |-> << old_vers >>, vers |-> vers ]

\* the bug this compares against: g_max_sparse is assigned before the range
\* check
hll_set_max_sparse_assigns_first(old_maxsparse, maxsparse) ==
    IF maxsparse < -1 THEN [ err |-> "Data", val |-> << >>, maxsparse |-> maxsparse ]
    ELSE [ err |-> "", val |-> << old_maxsparse >>, maxsparse |-> maxsparse ]

\* hll_set_max_sparse: [err, val, maxsparse]
hll_set_max_sparse(old_maxsparse, maxsparse) ==
    IF maxsparse < -1 THEN [ err |-> "Data", val |-> << >>, maxsparse |-> old_maxsparse ]
    ELSE [ err |-> "", val |-> << old_maxsparse >>, maxsparse |-> maxsparse ]

\* hll_set_defaults: [err, val, defaults]; old and defaults are
\* << log2m, regwidth, expthresh, sparseon >>
hll_set_defaults(old, log2m, regwidth, expthresh, sparseon) ==
    IF ~check_modifiers(log2m, regwidth, expthresh, sparseon)
    THEN [ err |-> "InvalidParameter", val |-> << >>, defaults |-> old ]
    ELSE [ err |-> "", val |-> old, defaults |-> << log2m, regwidth, expthresh, sparseon >> ]

\* the four defaults in force
Defaults ==
    << g_default_log2m, g_default_regwidth, g_default_expthresh, g_default_sparseon >>

\* the call of a setting function as ret records it: its argument and what it
\* returned
SettingReturned(fn, arg, r) ==
    [ fn |-> fn, err |-> r.err, pre_type |-> msap.ms_type, arg |-> arg, val |-> r.val ]

HllSetOutputVersion(vers) ==
    \E r \in { hll_set_output_version(g_output_version, vers) } :
       /\ g_output_version' = r.vers
       /\ ret' = SettingReturned("hll_set_output_version", << vers >>, r)
       /\ UNCHANGED << msap, hist, datum, g_default_log2m, g_default_regwidth,
                       g_default_expthresh, g_default_sparseon, g_max_sparse >>

HllSetMaxSparse(maxsparse) ==
    \E r \in { hll_set_max_sparse(g_max_sparse, maxsparse) } :
       /\ g_max_sparse' = r.maxsparse
       /\ ret' = SettingReturned("hll_set_max_sparse", << maxsparse >>, r)
       /\ UNCHANGED << msap, hist, datum, g_default_log2m, g_default_regwidth,
                       g_default_expthresh, g_default_sparseon, g_output_version >>

HllSetDefaults(log2m, regwidth, expthresh, sparseon) ==
    \E r \in { hll_set_defaults(Defaults, log2m, regwidth, expthresh, sparseon) } :
       /\ g_default_log2m' = r.defaults[1]
       /\ g_default_regwidth' = r.defaults[2]
       /\ g_default_expthresh' = r.defaults[3]
       /\ g_default_sparseon' = r.defaults[4]
       /\ ret' = SettingReturned("hll_set_defaults",
                                 << log2m, regwidth, expthresh, sparseon >>, r)
       /\ UNCHANGED << msap, hist, datum, g_max_sparse, g_output_version >>

\* the bug this compares against: the state is set up from the defaults on
\* every call
hll_add_trans0_rereads(ms, val, log2m, regwidth, expthresh, sparseon) ==
    IF ~check_modifiers(log2m, regwidth, expthresh, sparseon)
    THEN [ err |-> "InvalidParameter", ms |-> ms ]
    ELSE [ err |-> "",
           ms |-> multiset_add(EmptyMultiset(log2m, regwidth, expthresh, sparseon), val) ]

\* hll_add_trans0 with a non-null value under the defaults given: [err, ms].
\* The defaults are read only when the state is MST_UNINIT.
hll_add_trans0(ms, val, log2m, regwidth, expthresh, sparseon) ==
    IF ms.ms_type = MST_UNINIT
    THEN IF ~check_modifiers(log2m, regwidth, expthresh, sparseon)
         THEN [ err |-> "InvalidParameter", ms |-> ms ]
         ELSE [ err |-> "",
                ms |-> multiset_add(EmptyMultiset(log2m, regwidth, expthresh, sparseon), val) ]
    ELSE [ err |-> "", ms |-> multiset_add(ms, val) ]

HllAddTrans0(val) ==
    \E r \in { hll_add_trans0(msap, val, g_default_log2m, g_default_regwidth,
                              g_default_expthresh, g_default_sparseon) } :
       /\ msap' = r.ms
       /\ hist' = IF r.err = "" /\ hist.pure THEN [ hist EXCEPT !.adds = @ \cup { val } ]
                  ELSE hist
       /\ ret' = Returned("hll_add_trans0", r.err)
       /\ UNCHANGED << datum, globals >>

\* arguments of the setting functions: in range and out of range
OutputVersionInputs == { 0, 1, 2 }

SetMaxSparseInputs == MaxSparseInputs \cup { -2 }

DefaultsInputs ==
    { << DEFAULT_LOG2M, DEFAULT_REGWIDTH, DEFAULT_EXPTHRESH, DEFAULT_SPARSEON >>,
      << MaxLog2m, MaxRegwidth, 0, 1 >>,
      << MaxLog2m - 1, 0, 1, 0 >>,
      << 32, 1, -1, 1 >>,
      << MaxLog2m, 1, 3, 1 >> }

\* the values added while the settings change
SettingTokens == { << 0, 0, 0, 8 >>, << 32768, 0, 0, 0 >> }

NextSettings ==
    \/ \E vers \in OutputVersionInputs : HllSetOutputVersion(vers)
    \/ \E maxsparse \in SetMaxSparseInputs : HllSetMaxSparse(maxsparse)
    \/ \E p \in DefaultsInputs : HllSetDefaults(p[1], p[2], p[3], p[4])
    \/ \E val \in SettingTokens : HllAddTrans0(val)
    \/ HllPack
    \/ HllEmpty0
    \/ \E val \in SettingTokens : HllAdd(val)

SpecSettings == Init /\ [][NextSettings]_vars

\* ------------------------------------------------------------------------
\* Properties
\* ------------------------------------------------------------------------

\* same tag, same parameters, same token list when Explicit, same registers
\* when Dense
SameSketch(a, b) ==
    /\ a.ms_type = b.ms_type
    /\ Metadata(a) = Metadata(b)
    /\ (a.ms_type = MST_EXPLICIT => a.mse_elems = b.mse_elems)
    /\ (a.ms_type = MST_COMPRESSED => a.msc_regs = b.msc_regs)

\* decode(encode(ms)) is ms
RoundTrip(ms, vers, max_sparse) ==
    LET d == PackDatum(ms, vers, max_sparse)
        up == multiset_unpack(d.bytes)
    IN d.err = "" /\ up.ok /\ SameSketch(up.ms, ms)

\* C1: every aggregation state built by adds and unions from accepted
\* modifiers packs to a value that unpacks to the same parameters, tag, token
\* list and registers.
C1_RoundTrip ==
    msap.ms_type # MST_UNINIT => RoundTrip(msap, g_output_version, g_max_sparse)

\* C2 as stated: hll_empty0 under the compiled defaults returns exactly the
\* three bytes 0x11 0x8B 0x7E.
DefaultsAsCompiled ==
    /\ g_default_log2m = DEFAULT_LOG2M
    /\ g_default_regwidth = DEFAULT_REGWIDTH
    /\ g_default_expthresh = DEFAULT_EXPTHRESH
    /\ g_default_sparseon = DEFAULT_SPARSEON
    /\ g_output_version = 1

C2_DefaultEmptyBytes_Stated ==
    (ret.fn = "hll_empty0" /\ ret.err = "" /\ DefaultsAsCompiled)
        => datum = << 17, 139, 126 >>

\* C2: hll_empty0 under the compiled defaults (log2m 11, regwidth 5,
\* expthresh -1, sparseon 1) returns exactly three bytes, 0x11 0x8B 0x7F: the
\* last byte is sparseon << 6 | 63.
C2_DefaultEmptyBytes ==
    (ret.fn = "hll_empty0" /\ ret.err = "" /\ DefaultsAsCompiled)
        => datum = << 17, 139, 127 >>

C2_Witness ==
    ret.fn = "hll_empty0" /\ ret.err = "" /\ DefaultsAsCompiled /\ Len(datum) = 3

\* the sketch with the parameters of ms and nothing in it
EmptyOf(ms) ==
    EmptyMultiset(ms.ms_log2nregs, ms.ms_nbits, ms.ms_expthresh, ms.ms_sparseon)

\* the tokens of a set added one by one, in ascending signed order
RECURSIVE AddEach(_, _)
AddEach(ms, toks) ==
    IF toks = { } THEN ms
    ELSE LET t == CHOOSE x \in toks : \A y \in toks : element_compare(x, y) <= 0
         IN AddEach(multiset_add(ms, t), toks \ { t })

\* C3: a state built only by adds, in whatever order and with whatever
\* repetitions, has the cardinality of the sketch built by adding the same
\* tokens once each in ascending order to the Empty sketch of its parameters.
C3_OrderIndependent ==
    (hist.pure /\ msap.ms_type # MST_UNINIT)
        => multiset_card(msap) = multiset_card(AddEach(EmptyOf(msap), hist.adds))

C3_Witness ==
    /\ hist.pure
    /\ Cardinality(hist.adds) >= 3
    /\ msap.ms_type = MST_COMPRESSED
    /\ multiset_card(msap).kind = "value"
    /\ multiset_card(msap).milli > 0

\* C4: for every state s (Empty, Explicit below or at capacity, Dense,
\* Undefined) and every token x, adding x to add(s, x) changes neither tag,
\* parameters, token list nor registers, nor the cardinality.
C4_AddIdempotent ==
    msap.ms_type # MST_UNINIT =>
        \A x \in TokenInputs :
            LET s1 == multiset_add(msap, x)
                s2 == multiset_add(s1, x)
            IN SameSketch(s2, s1) /\ multiset_card(s2) = multiset_card(s1)

C4_Witness ==
    /\ ret.fn = "hll_add_trans4"
    /\ ret.pre_type = MST_EXPLICIT
    /\ msap.ms_type = MST_EXPLICIT
    /\ Len(msap.mse_elems) =
           expthresh_value(msap.ms_expthresh, msap.ms_nbits, msap.ms_nregs)

\* the operands that unpack, are not Undefined and have the parameters of ms
MatchingOperands(ms) ==
    { arg \in Operands :
        /\ arg.unpacked.ok
        /\ arg.unpacked.ms.ms_type # MST_UNDEFINED
        /\ check_metadata(ms, arg.unpacked.ms) }

\* cardinality(union(s, t)) >= max(cardinality(s), cardinality(t)) for the
\* state s = msap, the operand t and the union u, when all three are numbers
UnionNotSmaller(s, t, u) ==
    LET cs == multiset_card(s)
        ct == multiset_card(t)
        cu == multiset_card(u)
    IN (cs.kind = "value" /\ ct.kind = "value" /\ cu.kind = "value")
           => cu.milli >= Max(cs.milli, ct.milli)

\* C5 as stated: for every state s and operand t with matching parameters,
\* neither Undefined, the union's cardinality is at least both operands',
\* promotion to Dense included.
C5_UnionMonotone_Stated ==
    msap.ms_type \notin { MST_UNINIT, MST_UNDEFINED } =>
        \A arg \in MatchingOperands(msap) :
            UnionNotSmaller(msap, arg.unpacked.ms,
                            multiset_union(msap, arg.unpacked.ms).ms)

\* C5: for every state s and operand t with matching parameters, neither
\* Undefined, whose union is not Dense (so Empty or Explicit), the union's
\* cardinality is a number at least as large as both operands'.
C5_UnionMonotone ==
    msap.ms_type \notin { MST_UNINIT, MST_UNDEFINED } =>
        \A arg \in MatchingOperands(msap) :
            LET u == multiset_union(msap, arg.unpacked.ms)
            IN (u.ok /\ u.ms.ms_type # MST_COMPRESSED) =>
                   /\ multiset_card(u.ms).kind = "value"
                   /\ UnionNotSmaller(msap, arg.unpacked.ms, u.ms)

C5_Witness ==
    /\ ret.fn = "hll_union_trans"
    /\ ret.err = ""
    /\ ret.pre_type = MST_EXPLICIT
    /\ msap.ms_type = MST_EXPLICIT
    /\ Len(msap.mse_elems) >= 2

\* signed 64-bit order on tokens: the top limb with its sign bit flipped, then
\* the lower limbs
SignedKey(t) == << (t[1] + 32768) % 65536, t[2], t[3], t[4] >>

SignedLess(t, u) ==
    \E i \in 1 .. 4 :
        /\ SignedKey(t)[i] < SignedKey(u)[i]
        /\ \A j \in 1 .. (i - 1) : SignedKey(t)[j] = SignedKey(u)[j]

StrictlyAscending(elems) ==
    \A i \in 1 .. (Len(elems) - 1) : SignedLess(elems[i], elems[i + 1])

\* an Explicit frame with the parameters of ms that lists t, then u
ExplicitFrame(ms, t, u) ==
    pack_header(1, MST_EXPLICIT, ms.ms_nbits, ms.ms_log2nregs, ms.ms_expthresh,
                ms.ms_sparseon) \o TokenBytes(t) \o TokenBytes(u)

\* C6: every Explicit state built by adds and unions of unpacked values lists
\* its tokens in strictly ascending signed order (negative tokens first, no
\* duplicates), and multiset_unpack rejects every Explicit frame of two tokens
\* that are not strictly ascending.
C6_ExplicitAscending ==
    msap.ms_type # MST_UNINIT =>
        /\ msap.ms_type = MST_EXPLICIT => StrictlyAscending(msap.mse_elems)
        /\ \A t, u \in TokenInputs :
               ~SignedLess(t, u) => ~multiset_unpack(ExplicitFrame(msap, t, u)).ok

C6_Witness ==
    /\ msap.ms_type = MST_EXPLICIT
    /\ Len(msap.mse_elems) >= 2
    /\ msap.mse_elems[1][1] >= 32768
    /\ ret.fn \in { "hll_add_trans4", "hll_union_trans" }
    /\ ret.err = ""

RegistersBounded(ms) ==
    /\ Len(ms.msc_regs) = ms.ms_nregs
    /\ \A ii \in 1 .. ms.ms_nregs : ms.msc_regs[ii] \in 0 .. ((2 ^ ms.ms_nbits) - 1)

\* a Dense frame with the parameters of ms whose payload bits are all ones
DenseFrameOfOnes(ms) ==
    pack_header(1, MST_COMPRESSED, ms.ms_nbits, ms.ms_log2nregs, ms.ms_expthresh,
                ms.ms_sparseon)
        \o [ i \in 1 .. ((ms.ms_nbits * ms.ms_nregs + 7) \div 8) |-> 255 ]

\* C7: every Dense state built by adds and unions of unpacked values has
\* nregs registers, each in 0 .. 2^nbits - 1, and so has the sketch unpacked
\* from a Dense frame whose payload bits are all ones.
C7_RegisterBound ==
    /\ msap.ms_type = MST_COMPRESSED => RegistersBounded(msap)
    /\ (msap.ms_type # MST_UNINIT /\ msap.ms_nbits >= 1) =>
           \A up \in { multiset_unpack(DenseFrameOfOnes(msap)) } :
               up.ok /\ up.ms.ms_type = MST_COMPRESSED /\ RegistersBounded(up.ms)

C7_Witness ==
    /\ msap.ms_type = MST_COMPRESSED
    /\ msap.ms_nbits >= 1
    /\ \E ii \in 1 .. msap.ms_nregs : msap.msc_regs[ii] = (2 ^ msap.ms_nbits) - 1
    /\ ret.fn = "hll_add_trans4"

\* C8: a step never moves the tag of the state backwards in Empty < Explicit <
\* Dense unless it moves it to Undefined, and a step that takes the tag away
\* from Dense is a hll_union_trans whose operand is Undefined.
C8_PromotionMonotone ==
    [][ /\ (msap.ms_type \in { MST_EMPTY, MST_EXPLICIT, MST_COMPRESSED }
               /\ msap'.ms_type # MST_UNDEFINED)
              => msap'.ms_type >= msap.ms_type
        /\ (msap.ms_type = MST_COMPRESSED /\ msap'.ms_type # MST_COMPRESSED)
              => /\ msap'.ms_type = MST_UNDEFINED
                 /\ ret'.fn = "hll_union_trans"
                 /\ \A arg \in Operands :
                        hll_union_trans(msap, arg.unpacked).ms = msap'
                            => arg.unpacked.ms.ms_type = MST_UNDEFINED
      ]_vars

C8_Witness ==
    /\ ret.fn = "hll_union_trans"
    /\ ret.err = ""
    /\ ret.pre_type = MST_COMPRESSED
    /\ msap.ms_type = MST_COMPRESSED

\* one of log2m, regwidth, expthresh, sparseon differs
ParamsDiffer(a, b) ==
    << a.ms_log2nregs, a.ms_nbits, a.ms_expthresh, a.ms_sparseon >>
        # << b.ms_log2nregs, b.ms_nbits, b.ms_expthresh, b.ms_sparseon >>

\* C9: for every parameterized state and every operand that unpacks, when one
\* of the four parameters differs hll_union_trans raises a Data error and
\* leaves the state as it was, and hll_union of the packed state with the
\* operand raises a Data error, whatever the two representations.
C9_MismatchRefused ==
    msap.ms_type # MST_UNINIT =>
        \A d \in { PackDatum(msap, g_output_version, g_max_sparse) } :
        \A a \in { multiset_unpack(d.bytes) } :
        \A arg \in Operands :
            arg.unpacked.ok =>
                /\ ParamsDiffer(msap, arg.unpacked.ms) =>
                       hll_union_trans(msap, arg.unpacked) = [ err |-> "Data", ms |-> msap ]
                /\ (d.err = "" /\ a.ok /\ ParamsDiffer(a.ms, arg.unpacked.ms)) =>
                       UnionUnpacked(a, arg.unpacked, g_output_version, g_max_sparse).err
                           = "Data"

C9_Witness ==
    /\ ret.fn = "hll_union_trans"
    /\ ret.err = "Data"
    /\ ret.pre_type = MST_COMPRESSED
    /\ msap.ms_type = MST_COMPRESSED

\* C10: no step changes log2m, regwidth, expthresh or sparseon of a
\* parameterized state, whether the representation changes or not and whatever
\* modifiers a later hll_add_trans4 is called with.
C10_ParamsKept ==
    [][ msap.ms_type # MST_UNINIT => Metadata(msap') = Metadata(msap) ]_vars

C10_Witness ==
    /\ ret.fn = "hll_union_trans"
    /\ ret.err = ""
    /\ ret.pre_type = MST_EXPLICIT
    /\ msap.ms_type = MST_COMPRESSED

\* the effective explicit capacity of a sketch
Capacity(ms) == expthresh_value(ms.ms_expthresh, ms.ms_nbits, ms.ms_nregs)

WithinCapacity(ms) ==
    ms.ms_type = MST_EXPLICIT => Len(ms.mse_elems) <= Capacity(ms)

\* C11: every Explicit state built by adds and unions lists at most Capacity
\* tokens, and so does every Explicit sketch that multiset_unpack returns for
\* a frame of two tokens with the parameters of the state.
C11_ExplicitCapacity ==
    msap.ms_type # MST_UNINIT =>
        /\ WithinCapacity(msap)
        /\ \A t, u \in TokenInputs :
               \A up \in { multiset_unpack(ExplicitFrame(msap, t, u)) } :
                   up.ok => WithinCapacity(up.ms)

\* the frame type in the first byte of a packed value
FrameType(bytes) == bytes[1] % 16

\* ceil(bits / 8)
BytesFor(bits) == (bits + 7) \div 8

\* the payload bytes of a frame of the given type for the sketch ms
PayloadBytes(type, ms) ==
    CASE type \in { MST_EMPTY, MST_UNDEFINED } -> 0
      [] type = MST_EXPLICIT -> 8 * Len(ms.mse_elems)
      [] type = MST_SPARSE ->
           BytesFor(Cardinality({ ii \in 1 .. ms.ms_nregs : ms.msc_regs[ii] # 0 })
                        * (ms.ms_log2nregs + ms.ms_nbits))
      [] type = MST_COMPRESSED -> BytesFor(ms.ms_nregs * ms.ms_nbits)

\* C12: for every state and every value of max_sparse, multiset_pack into a
\* buffer of multiset_packed_size bytes raises no error and fills exactly that
\* many bytes, which are 3 plus the payload bytes of the frame type it wrote.
C12_PackedSizeMirrors ==
    msap.ms_type # MST_UNINIT =>
        \A mxs \in MaxSparseInputs :
            \A sz \in { multiset_packed_size(msap, mxs) } :
            \A pk \in { multiset_pack(msap, sz, g_output_version, mxs) } :
                /\ pk.ok
                /\ Len(pk.bytes) = sz
                /\ sz = 3 + PayloadBytes(FrameType(pk.bytes), msap)

C12_Witness ==
    /\ ret.fn = "hll_pack"
    /\ ret.err = ""
    /\ msap.ms_type = MST_COMPRESSED
    /\ \E mxs \in MaxSparseInputs :
           multiset_packed_size(msap, mxs) < 3 + BytesFor(msap.ms_nregs * msap.ms_nbits)

\* the condition under which a Sparse frame is written
SparseChosen(ms, mxs) ==
    LET n_filled == Cardinality({ ii \in 1 .. ms.ms_nregs : ms.msc_regs[ii] # 0 })
    IN /\ ms.ms_sparseon = 1
       /\ \/ (mxs # -1 /\ n_filled <= mxs)
          \/ (mxs = -1 /\ n_filled * (ms.ms_log2nregs + ms.ms_nbits)
                              < ms.ms_nregs * ms.ms_nbits)

ExplicitFrameOf(ms, n) ==
    pack_header(1, MST_EXPLICIT, ms.ms_nbits, ms.ms_log2nregs, ms.ms_expthresh,
                ms.ms_sparseon)
        \o [ jj \in 1 .. 8 * n |->
               LET kk == ((jj - 1) \div 8) + 1
                   pp == (jj - 1) % 8
               IN CASE pp = 5 -> (kk \div 65536) % 256
                    [] pp = 6 -> (kk \div 256) % 256
                    [] pp = 7 -> kk % 256
                    [] OTHER -> 0 ]

\* a Dense or Sparse frame of nbytes zero payload bytes for 2^log2m registers
\* as wide as those of ms
RegisterFrameOf(ms, type, log2m, nbytes) ==
    pack_header(1, type, ms.ms_nbits, log2m, ms.ms_expthresh, ms.ms_sparseon)
        \o [ jj \in 1 .. nbytes |-> 0 ]

\* the bytes of multiset_t.ms_data that decoding a frame fills: the count and
\* the tokens of ms_explicit_t, or one compreg_t for each register
DecodedBodyBytes(i_bitp) ==
    IF FrameType(i_bitp) = MST_EXPLICIT THEN 8 + 8 * ((Len(i_bitp) - 3) \div 8)
    ELSE IF FrameType(i_bitp) \in { MST_COMPRESSED, MST_SPARSE } THEN 2 ^ (i_bitp[2] % 32)
    ELSE 0

\* the least log2m whose registers do not fit in MS_MAXDATA bytes
Log2mTooLarge == CHOOSE l \in 0 .. 31 : 2 ^ l > MS_MAXDATA /\ 2 ^ (l - 1) <= MS_MAXDATA

\* frames at the edge of MS_MAXDATA, with the parameters of ms
EdgeFrames(ms) ==
    { ExplicitFrameOf(ms, MS_MAXDATA \div 8),
      ExplicitFrameOf(ms, (MS_MAXDATA \div 8) + 1),
      RegisterFrameOf(ms, MST_COMPRESSED, Log2mTooLarge,
                      BytesFor(ms.ms_nbits * (2 ^ Log2mTooLarge))),
      RegisterFrameOf(ms, MST_SPARSE, Log2mTooLarge, 8) }

\* C14: multiset_unpack rejects every frame whose decoded body is larger than
\* MS_MAXDATA bytes, the Explicit frame of MS_MAXDATA / 8 = 16384 tokens
\* included.
C14_DecodeSizeBound ==
    (msap.ms_type = MST_EMPTY /\ msap.ms_nbits >= 1) =>
        \A f \in EdgeFrames(msap) :
            DecodedBodyBytes(f) > MS_MAXDATA => ~multiset_unpack(f).ok

\* C15: the state is MST_UNDEFINED exactly when an MST_UNDEFINED value was
\* folded into it by hll_union_trans (the state is never MST_UNDEFINED at
\* first), and from an MST_UNDEFINED state every add and every union of a value
\* with the same parameters gives an MST_UNDEFINED state again.
C15_UndefinedAbsorbing ==
    /\ (msap.ms_type = MST_UNDEFINED) <=> hist.undef
    /\ msap.ms_type = MST_UNDEFINED =>
           /\ \A val \in TokenInputs : multiset_add(msap, val).ms_type = MST_UNDEFINED
           /\ \A arg \in Operands :
                  \A r \in { hll_union_trans(msap, arg.unpacked) } :
                      /\ r.ms.ms_type = MST_UNDEFINED
                      /\ (arg.unpacked.ok /\ Metadata(arg.unpacked.ms) = Metadata(msap))
                             => r.err = ""

C15_Witness ==
    /\ msap.ms_type = MST_UNDEFINED
    /\ hist.undef
    /\ ret.fn = "hll_add_trans4"
    /\ ret.err = ""
    /\ ret.pre_type = MST_UNDEFINED

\* the sketches built from the empty sketch with the parameters of ms by adds,
\* and the same sketches marked MST_UNDEFINED
BuiltByAdds(ms) == { AddEach(EmptyOf(ms), toks) : toks \in SUBSET TokenInputs }

AsUndefined(ms) == [ ms EXCEPT !.ms_type = MST_UNDEFINED ]

\* C16: for a state a built only by adds and every sketch b built by adds with
\* the same parameters, each as it is or Undefined, multiset_union(a, b) and
\* multiset_union(b, a) raise no error and give the same type, the same
\* elements when Explicit and the same registers when Dense.
C16_UnionCommutative ==
    (hist.pure /\ msap.ms_type # MST_UNINIT) =>
        \A b0 \in BuiltByAdds(msap) :
            \A a \in { msap, AsUndefined(msap) }, b \in { b0, AsUndefined(b0) } :
                \A ab \in { multiset_union(a, b) }, ba \in { multiset_union(b, a) } :
                    /\ ab.ok
                    /\ ba.ok
                    /\ SameSketch(ab.ms, ba.ms)

C16_Witness ==
    /\ hist.pure
    /\ ret.fn = "hll_add_trans4"
    /\ msap.ms_type = MST_EXPLICIT
    /\ Len(msap.mse_elems) >= 2
    /\ \E b \in BuiltByAdds(msap) :
           /\ b.ms_type = MST_EXPLICIT
           /\ multiset_union(msap, b).ms.ms_type = MST_COMPRESSED
           /\ multiset_union(b, msap).ms.ms_type = MST_COMPRESSED
    /\ \E b \in BuiltByAdds(msap) :
           /\ b.ms_type = MST_COMPRESSED
           /\ multiset_union(msap, b).ok

\* C17: from every state, hll_union_trans with an argument for which it
\* raises an error (the argument does not decode, or its parameters differ from
\* the state's) leaves the state exactly as it was; and multiset_union, where
\* it raises an error for a sketch with the state's parameters or with half as
\* many registers, leaves the target as it was.
C17_NoPartialMutation ==
    /\ \A arg \in Operands :
           \A r \in { hll_union_trans(msap, arg.unpacked) } :
               r.err # "" => r.ms = msap
    /\ msap.ms_type # MST_UNINIT =>
           \A b0 \in { AddEach(EmptyOf(msap), TokenInputs) } :
           \A b \in { b0, [ b0 EXCEPT !.ms_nregs = msap.ms_nregs \div 2 ] } :
           \A u \in { multiset_union(msap, b) } :
               ~u.ok => u.ms = msap

C17_Witness ==
    /\ ret.fn = "hll_union_trans"
    /\ ret.err = "Data"
    /\ ret.pre_type = MST_EXPLICIT
    /\ msap.ms_type = MST_EXPLICIT
    /\ Len(msap.mse_elems) >= 2

\* the final functions of the aggregates
FinalFunctions ==
    { "hll_pack", "hll_card_unpacked", "hll_floor_card_unpacked", "hll_ceil_card_unpacked" }

\* what the four final functions return for a state under the settings given
FinalResults(ms, vers, max_sparse) ==
    << hll_pack(ms, vers, max_sparse), hll_card_unpacked(ms),
       hll_floor_card_unpacked(ms), hll_ceil_card_unpacked(ms) >>

\* C18: a step of hll_pack, hll_card_unpacked, hll_floor_card_unpacked or
\* hll_ceil_card_unpacked leaves the aggregation state as it was, so each of
\* the four returns after the step what it returned before it.
C18_FinalizeReadOnly ==
    [][ ret'.fn \in FinalFunctions =>
          /\ msap' = msap
          /\ FinalResults(msap', g_output_version', g_max_sparse')
                 = FinalResults(msap, g_output_version, g_max_sparse)
      ]_vars

C18_Witness ==
    /\ ret.fn = "hll_ceil_card_unpacked"
    /\ ret.err = ""
    /\ ret.pre_type = MST_COMPRESSED
    /\ msap.ms_type = MST_COMPRESSED
    /\ hll_pack(msap, g_output_version, g_max_sparse).err = ""
    /\ hll_floor_card_unpacked(msap).kind = "value"

\* the setting functions
SettingFunctions == { "hll_set_output_version", "hll_set_max_sparse", "hll_set_defaults" }

\* the argument of the call r is out of range for its function
OutOfRange(r) ==
    CASE r.fn = "hll_set_output_version" -> r.arg[1] # 1
      [] r.fn = "hll_set_max_sparse" -> r.arg[1] < -1
      [] r.fn = "hll_set_defaults" ->
           ~check_modifiers(r.arg[1], r.arg[2], r.arg[3], r.arg[4])

\* the value(s) of the setting the function fn changes
SettingOf(fn, version, maxsparse, defaults) ==
    CASE fn = "hll_set_output_version" -> << version >>
      [] fn = "hll_set_max_sparse" -> << maxsparse >>
      [] fn = "hll_set_defaults" -> defaults

\* a step of a setting function that raises the error class errorOf gives for
\* it and changes no setting when the argument is out of range, and otherwise
\* returns the value(s) in force before it and puts the argument in force
SettingStep(errorOf(_)) ==
    ret'.fn \in SettingFunctions =>
        IF OutOfRange(ret')
        THEN /\ ret'.err = errorOf(ret'.fn)
             /\ globals' = globals
        ELSE /\ ret'.err = ""
             /\ ret'.val = SettingOf(ret'.fn, g_output_version, g_max_sparse, Defaults)
             /\ ret'.arg = SettingOf(ret'.fn, g_output_version', g_max_sparse', Defaults')

DataForEach(fn) == "Data"

ClassOfCheck(fn) == IF fn = "hll_set_defaults" THEN "InvalidParameter" ELSE "Data"

\* C19 as stated: every setting function returns the value(s) in force before
\* the call, and an out-of-range argument raises a Data error and leaves every
\* setting unchanged.
C19_Setters_Stated == [][ SettingStep(DataForEach) ]_vars

\* C19: every setting function returns the value(s) in force before the call;
\* an out-of-range argument leaves every setting unchanged and raises a Data
\* error from hll_set_output_version and hll_set_max_sparse, and an
\* InvalidParameter error from hll_set_defaults.
C19_Setters == [][ SettingStep(ClassOfCheck) ]_vars

C19_Witness ==
    /\ ret.fn = "hll_set_defaults"
    /\ ret.err = "InvalidParameter"
    /\ Defaults # << DEFAULT_LOG2M, DEFAULT_REGWIDTH, DEFAULT_EXPTHRESH, DEFAULT_SPARSEON >>
    /\ g_max_sparse # -1

\* C20: for a parameterized aggregation state, hll_add_trans0 gives the same
\* state, with the parameters the state had, and hll_pack the same bytes for
\* it, whatever the defaults are when it is called; and hll_add of a value held
\* returns a value with the parameters of the value held.
C20_DefaultsDoNotLeak ==
    /\ msap.ms_type # MST_UNINIT =>
           \A val \in SettingTokens :
               \A r \in { hll_add_trans0(msap, val, g_default_log2m, g_default_regwidth,
                                         g_default_expthresh, g_default_sparseon) } :
                   /\ r.err = ""
                   /\ Metadata(r.ms) = Metadata(msap)
                   /\ \A q \in DefaultsInputs :
                          \A rq \in { hll_add_trans0(msap, val, q[1], q[2], q[3], q[4]) } :
                              /\ rq = r
                              /\ hll_pack(rq.ms, g_output_version, g_max_sparse)
                                     = hll_pack(r.ms, g_output_version, g_max_sparse)
    /\ datum # << >> =>
           \A val \in SettingTokens :
               \A r \in { hll_add(datum, val, g_output_version, g_max_sparse) } :
                   /\ r.err = ""
                   /\ Metadata(multiset_unpack(r.bytes).ms) = Metadata(multiset_unpack(datum).ms)

C20_Witness ==
    /\ ret.fn = "hll_add_trans0"
    /\ ret.err = ""
    /\ ret.pre_type \notin { MST_UNINIT, MST_UNDEFINED }
    /\ Metadata(msap) # Metadata(EmptyMultiset(g_default_log2m, g_default_regwidth,
                                               g_default_expthresh, g_default_sparseon))
    /\ datum # << >>
    /\ Metadata(multiset_unpack(datum).ms) # Metadata(msap)

\* the frame with its first byte (version and type) replaced
WithFirstByte(i_bitp, b) == [ i_bitp EXCEPT ![1] = b ]

\* the frames made from a packed value by replacing the version (0, 1, 2) and
\* the type (0 .. 5, 15), as it is, one byte longer and one byte shorter
FrameVariants(i_bitp) ==
    LET lengths == { i_bitp, i_bitp \o << 0 >> }
                       \cup (IF Len(i_bitp) > 3
                             THEN { SubSeq(i_bitp, 1, Len(i_bitp) - 1) } ELSE { })
    IN { WithFirstByte(f, 16 * v + t) :
           f \in lengths, v \in { 0, 1, 2 }, t \in (0 .. 5) \cup { 15 } }

\* the frame has one of the defects listed
InconsistentFrame(i_bitp) ==
    LET vers == (i_bitp[1] \div 16) % 16
        type == i_bitp[1] % 16
        regwidth == (i_bitp[2] \div 32) + 1
        m == 2 ^ (i_bitp[2] % 32)
        payload == Len(i_bitp) - 3
    IN \/ vers # 1
       \/ type \notin { MST_UNDEFINED, MST_EMPTY, MST_EXPLICIT, MST_SPARSE, MST_COMPRESSED }
       \/ (type \in { MST_EMPTY, MST_UNDEFINED } /\ payload # 0)
       \/ (type = MST_EXPLICIT /\ payload % 8 # 0)
       \/ (type = MST_COMPRESSED /\ payload # BytesFor(regwidth * m))

\* C21: multiset_unpack raises its error for every frame whose version is not
\* 1, whose type is none of Undefined, Empty, Explicit, Sparse, Dense, that is
\* Empty or Undefined and not 3 bytes long, that is Explicit with a payload not
\* a multiple of 8 bytes, or that is Dense with a payload not of
\* ceil(regwidth * m / 8) bytes.
C21_DecodeRejects ==
    datum # << >> =>
        \A f \in FrameVariants(datum) :
            InconsistentFrame(f) => ~multiset_unpack(f).ok

C21_Witness ==
    /\ datum # << >>
    /\ FrameType(datum) = MST_COMPRESSED
    /\ ret.fn = "hll_add"
    /\ \E f \in FrameVariants(datum) :
           /\ FrameType(f) = MST_EXPLICIT
           /\ InconsistentFrame(f)
           /\ ~multiset_unpack(f).ok
    /\ \E f \in FrameVariants(datum) : ~InconsistentFrame(f) /\ multiset_unpack(f).ok

\* the tokens below 2^31 the dense rule is checked on, as numbers
DenseRuleValues == (0 .. 8 * MaxLog2m) \cup { 65536, 3 * 65536, 16384 * 65536 + 5 }

\* the token with the number v < 2^31
TokenOf(v) == << 0, 0, v \div 65536, v % 65536 >>

\* count_trailing_zeros(w), w > 0
RECURSIVE CountTrailingZeros(_)
CountTrailingZeros(w) == IF w % 2 = 1 THEN 0 ELSE 1 + CountTrailingZeros(w \div 2)

Min(a, b) == IF a < b THEN a ELSE b

\* the registers after the dense rule has placed rank p at index idx
DenseRule(ms, idx, p) ==
    [ ii \in 1 .. ms.ms_nregs |->
        IF ii = idx + 1
        THEN Max(ms.msc_regs[ii], Min(p, (2 ^ ms.ms_nbits) - 1))
        ELSE ms.msc_regs[ii] ]

\* C22: multiset_add of token t to a Dense state leaves it Dense with
\* register[t AND (m-1)] = max(old, min(p, maxreg)), where w = t >> log2m and
\* p = 0 when w = 0 and count_trailing_zeros(w) + 1 otherwise, and every other
\* register as it was; a token with w = 0 changes nothing.  The token 2^63 is
\* checked with idx = 0 and p = 64 - log2m.
C22_DenseAddRule ==
    msap.ms_type = MST_COMPRESSED =>
        /\ \A v \in DenseRuleValues :
               LET idx == v % msap.ms_nregs
                   w == v \div msap.ms_nregs
                   p == IF w = 0 THEN 0 ELSE CountTrailingZeros(w) + 1
               IN \A r \in { multiset_add(msap, TokenOf(v)) } :
                      /\ r.ms_type = MST_COMPRESSED
                      /\ r.msc_regs = DenseRule(msap, idx, p)
                      /\ w = 0 => r = msap
        /\ \A r \in { multiset_add(msap, << 32768, 0, 0, 0 >>) } :
               r.msc_regs = DenseRule(msap, 0, 64 - msap.ms_log2nregs)

C22_Witness ==
    /\ ret.fn = "hll_add_trans4"
    /\ ret.err = ""
    /\ ret.pre_type = MST_COMPRESSED
    /\ msap.ms_type = MST_COMPRESSED
    /\ msap.ms_nbits = MaxRegwidth
    /\ \E ii \in 1 .. msap.ms_nregs : msap.msc_regs[ii] = 2
    /\ multiset_add(msap, TokenOf(1)) = msap
    /\ multiset_add(msap, TokenOf(3 * msap.ms_nregs + 1)) # msap

\* the number of chunks multiset_unpack reads from a Sparse frame
DecoderFilled(i_bitp) ==
    (8 * (Len(i_bitp) - 3)) \div ((i_bitp[2] % 32) + (i_bitp[2] \div 32) + 1)

\* C23: for every Dense state and every value of max_sparse, when multiset_pack
\* writes a Sparse frame the decoder's n_filled = floor(8 * payload bytes /
\* (log2m + regwidth)) is the number of non-zero registers packed, and
\* multiset_unpack returns the registers that were packed.
C23_SparseRegisterCount ==
    msap.ms_type = MST_COMPRESSED =>
        \A mxs \in MaxSparseInputs :
            \A pk \in { PackDatum(msap, g_output_version, mxs) } :
                (pk.err = "" /\ FrameType(pk.bytes) = MST_SPARSE) =>
                    /\ DecoderFilled(pk.bytes) = numfilled(msap)
                    /\ \A up \in { multiset_unpack(pk.bytes) } :
                           up.ok /\ up.ms.msc_regs = msap.msc_regs

\* the metadata unpack_header reads from the header pack_header writes for ms
HeaderRoundTrip(ms) ==
    Metadata(unpack_header(BlankMultiset,
                           pack_header(g_output_version, ms.ms_type, ms.ms_nbits,
                                       ms.ms_log2nregs, ms.ms_expthresh, ms.ms_sparseon)))

\* C24: for every state, whose parameters check_modifiers accepted,
\* unpack_header of the three bytes pack_header writes gives the state's
\* log2m, regwidth, expthresh and sparseon.
C24_HeaderRoundTrip ==
    msap.ms_type # MST_UNINIT => HeaderRoundTrip(msap) = Metadata(msap)

\* the sketch that holds the one token val under the modifiers p
SketchOfOne(p, val) ==
    LET e == EmptyMultiset(p[1], p[2], p[3], p[4])
    IN IF expthresh_value(p[3], p[2], 2 ^ p[1]) = 0
       THEN [ e EXCEPT !.ms_type = MST_COMPRESSED,
                       !.msc_regs = [ ii \in 1 .. 2 ^ p[1] |-> 0 ] ]
       ELSE [ e EXCEPT !.ms_type = MST_EXPLICIT, !.mse_elems = << val >> ]

\* C25: after every step the state is MST_UNINIT exactly when no value and no
\* packed value has been folded into it; a transition function called with a
\* NULL value leaves it as it was; hll_pack returns no result exactly when it
\* is MST_UNINIT; and while the state stays MST_UNINIT, hll_add_trans4 with
\* accepted modifiers gives from it a sketch with those modifiers that holds
\* the value alone, and hll_union_trans gives the sketch its argument decodes
\* to.
C25_Lifecycle ==
    [][ /\ (msap'.ms_type = MST_UNINIT) <=> (hist'.pure /\ hist'.adds = { })
        /\ ret'.fn = "trans_null" => msap' = msap
        /\ ret'.fn = "hll_pack" =>
               (hll_pack(msap', g_output_version', g_max_sparse').null
                    <=> msap'.ms_type = MST_UNINIT)
        /\ (msap.ms_type = MST_UNINIT /\ msap' = msap) =>
               /\ \A p \in ParamInputs, val \in TokenInputs :
                      \A r \in { hll_add_trans4(msap, val, p[1], p[2], p[3], p[4]) } :
                          /\ r.err = ""
                          /\ Metadata(r.ms) = << p[1], p[2], p[3], p[4], 2 ^ p[1] >>
                          /\ IF r.ms.ms_type = MST_EXPLICIT
                             THEN SameSketch(r.ms, SketchOfOne(p, val))
                             ELSE SameSketch(r.ms, multiset_add(SketchOfOne(p, val), val))
               /\ \A arg \in Operands :
                      arg.unpacked.ok =>
                          \A r \in { hll_union_trans(msap, arg.unpacked) } :
                              r.err = "" /\ SameSketch(r.ms, arg.unpacked.ms)
      ]_vars

C25_Witness ==
    /\ ret.fn = "hll_union_trans"
    /\ ret.err = ""
    /\ ret.pre_type = MST_UNINIT
    /\ msap.ms_type = MST_EXPLICIT
    /\ ~hll_pack(msap, g_output_version, g_max_sparse).null

\* C26: multiset_card of a state is 0 when it is Empty, the number of its
\* elements when it is Explicit and no result when it is Undefined, whatever
\* its parameters (m = 8 included), and the Data error when it is Dense with
\* m <= 8; hll_card_unpacked returns the same.
C26_CardinalityByTag ==
    msap.ms_type # MST_UNINIT =>
        \A c \in { multiset_card(msap) } :
            /\ hll_card_unpacked(msap) = c
            /\ msap.ms_type = MST_EMPTY => c = [ kind |-> "value", milli |-> 0 ]
            /\ msap.ms_type = MST_EXPLICIT =>
                   c = [ kind |-> "value", milli |-> 1000 * Len(msap.mse_elems) ]
            /\ msap.ms_type = MST_UNDEFINED => c.kind = "null"
            /\ (msap.ms_type = MST_COMPRESSED /\ msap.ms_nregs <= 8) => c.kind = "error"

C26_Witness ==
    /\ ret.fn = "hll_card_unpacked"
    /\ ret.err = "Data"
    /\ msap.ms_type = MST_COMPRESSED
    /\ msap.ms_nregs = 8
    /\ \E ii \in 1 .. 8 : msap.msc_regs[ii] # 0

\* the bytes of multiset_t.ms_data a sketch occupies
BodyBytes(ms) ==
    CASE ms.ms_type = MST_EXPLICIT -> 8 + 8 * Len(ms.mse_elems)
      [] ms.ms_type = MST_COMPRESSED -> ms.ms_nregs
      [] OTHER -> 0

\* modifiers with the largest log2m whose registers fit in MS_MAXDATA and with
\* the next one; the registers are one bit wide and nothing is kept explicit
LargeParamInputs ==
    { << Log2mTooLarge - 1, 1, 0, 1 >>, << Log2mTooLarge, 1, 0, 1 >> }

\* the token 2^(l-1) + 2^l: register 2^(l-1) of 2^l registers, rank 1
HighRegisterToken(l) == TokenOf((2 ^ (l - 1)) + (2 ^ l))

\* C27: the sketch hll_empty4 returns for accepted modifiers, decoded and
\* changed by multiset_add as hll_add does, has a body of at most MS_MAXDATA
\* bytes, and the register multiset_add writes lies below MS_MAXDATA.
C27_BodyBound ==
    datum # << >> =>
        \A p \in LargeParamInputs :
            \A e \in { hll_empty4(p[1], p[2], p[3], p[4], g_output_version, g_max_sparse) } :
                e.err = "" =>
                    \A up \in { multiset_unpack(e.bytes) } :
                        up.ok =>
                            \A r \in { multiset_add(up.ms, HighRegisterToken(p[1])) } :
                                /\ BodyBytes(r) <= MS_MAXDATA
                                /\ TokLowBits(HighRegisterToken(p[1]), p[1]) < MS_MAXDATA

\* the cursor's byte offset (bwc_curp - o_bitp, brc_curp - i_bitp) when field
\* fieldno of a stream of nbits-bit fields is written or read: after each
\* field the cursor is normalised so that fewer than 8 bits are used
CursorByte(fieldno, nbits) == ((fieldno - 1) * nbits) \div 8

\* the 8-byte load and store of bitstream_pack and bitstream_unpack for field
\* fieldno cover bytes CursorByte .. CursorByte + 7 of a buffer of size bytes
WindowInside(fieldno, nbits, size) == CursorByte(fieldno, nbits) + 8 <= size

\* the fields and the field width of the stream multiset_pack writes and
\* multiset_unpack reads for a compressed multiset
StreamFields(i_msp, max_sparse) ==
    IF UseSparse(i_msp, max_sparse) THEN numfilled(i_msp) ELSE i_msp.ms_nregs

StreamWidth(i_msp, max_sparse) ==
    IF UseSparse(i_msp, max_sparse)
    THEN i_msp.ms_log2nregs + i_msp.ms_nbits
    ELSE i_msp.ms_nbits

\* C28: for every compressed multiset of the aggregate, every 8-byte window the
\* bitstream writer and reader use for a field of its packed stream lies inside
\* the multiset_packed_size - 3 payload bytes.
C28_WindowSafety ==
    msap.ms_type = MST_COMPRESSED =>
        \A mxs \in MaxSparseInputs :
            \A f \in 1 .. StreamFields(msap, mxs) :
                WindowInside(f, StreamWidth(msap, mxs), multiset_packed_size(msap, mxs) - 3)

\* the locals of multiset_card as integers, before their reduction to uint64
max_register_value(nbits) == (2 ^ nbits) - 1

pw_bits(nbits) == max_register_value(nbits) - 1

ThresholdBits(nbits, log2m) == pw_bits(nbits) + log2m

\* 1ULL << total_bits is two to the total_bits: pw_bits did not wrap below
\* zero and the shift count is below the width of the word
ThresholdFits(nbits, log2m) ==
    /\ pw_bits(nbits) >= 0
    /\ ThresholdBits(nbits, log2m) \in 0 .. 63

\* C29: for the parameters of every multiset of the aggregate, and for every
\* log2m and regwidth check_modifiers accepts, pw_bits does not underflow and
\* the shift count pw_bits + log2m of multiset_card lies in 0 .. 63.
C29_ThresholdFits ==
    /\ msap.ms_type # MST_UNINIT => ThresholdFits(msap.ms_nbits, msap.ms_log2nregs)
    /\ \A l \in 0 .. MAX_BITVAL(LOG2M_BITS) :
           \A w \in 0 .. MAX_BITVAL(REGWIDTH_BITS) :
               check_modifiers(l, w, msap.ms_expthresh, msap.ms_sparseon)
                   => ThresholdFits(w, l)

\* the value compressed_add offers to its register for token elem: 0 when
\* elem >> log2nregs is 0, else its trailing zeros plus one, at most maxregval
DenseValue(ms, elem) ==
    LET first == TokFirstSet(elem, ms.ms_log2nregs)
    IN IF first = 64 THEN 0
       ELSE Min(first - ms.ms_log2nregs + 1, (2 ^ ms.ms_nbits) - 1)

\* the largest DenseValue of the tokens of toks whose register is ndx, or 0
RegisterMax(ms, toks, ndx) ==
    LET vals == { DenseValue(ms, t) : t \in { u \in toks : TokLowBits(u, ms.ms_log2nregs) = ndx } }
    IN IF vals = { } THEN 0 ELSE CHOOSE v \in vals : \A x \in vals : x <= v

\* elems lists exactly the tokens of toks, ascending by element_compare
ListsAscending(elems, toks) ==
    /\ Len(elems) = Cardinality(toks)
    /\ { elems[i] : i \in 1 .. Len(elems) } = toks
    /\ \A i \in 1 .. Len(elems) - 1 : element_compare(elems[i], elems[i + 1]) < 0

\* C30: a state built only by adds of the token set D is the sketch built by
\* adding D once each in ascending order to the Empty sketch of its
\* parameters; it is Explicit listing exactly D in ascending signed order when
\* 0 < |D| <= Capacity, and otherwise Dense with every register the largest
\* dense value of the tokens of D that map to it.
C30_DependsOnTokenSet ==
    (hist.pure /\ msap.ms_type # MST_UNINIT) =>
        /\ msap = AddEach(EmptyOf(msap), hist.adds)
        /\ IF Cardinality(hist.adds) > 0 /\ Cardinality(hist.adds) <= Capacity(msap)
           THEN /\ msap.ms_type = MST_EXPLICIT
                /\ ListsAscending(msap.mse_elems, hist.adds)
           ELSE /\ msap.ms_type = MST_COMPRESSED
                /\ msap.msc_regs =
                       [ ii \in 1 .. msap.ms_nregs |-> RegisterMax(msap, hist.adds, ii - 1) ]

C30_Witness ==
    /\ hist.pure
    /\ ret.fn = "hll_add_trans4"
    /\ ret.pre_type = MST_EXPLICIT
    /\ msap.ms_type = MST_COMPRESSED
    /\ Capacity(msap) = 2
    /\ Cardinality(hist.adds) = 3
    /\ \E t, u \in hist.adds :
           /\ TokLowBits(t, msap.ms_log2nregs) = TokLowBits(u, msap.ms_log2nregs)
           /\ 0 < DenseValue(msap, t)
           /\ DenseValue(msap, t) < DenseValue(msap, u)
           /\ msap.msc_regs[TokLowBits(u, msap.ms_log2nregs) + 1] = DenseValue(msap, u)

====
